---- MODULE Spec2Model ----
(***************************************************************************)
(* Model of the document search core: the extractor's flat search index,  *)
(* the in-memory searcher (PDFSearcher), the query parser                  *)
(* (_parse_and_search), the FTS5 index builder and searcher, and the       *)
(* /api/search handler.  Text is a sequence of one-character strings;      *)
(* positions are 0-based as in Python.                                     *)
(***************************************************************************)
EXTENDS Integers, Sequences, FiniteSets, TLC

(***************************************************************************)
(* Characters and Python string primitives                                 *)
(***************************************************************************)
Uppers == <<"A","B","C","D","E","F","G","H","I","J","K","L","M",
            "N","O","P","Q","R","S","T","U","V","W","X","Y","Z">>
Lowers == <<"a","b","c","d","e","f","g","h","i","j","k","l","m",
            "n","o","p","q","r","s","t","u","v","w","x","y","z">>
Digits == <<"0","1","2","3","4","5","6","7","8","9">>
UpperSet == {Uppers[i] : i \in 1..26}
LowerSet == {Lowers[i] : i \in 1..26}
DigitSet == {Digits[i] : i \in 1..10}
LowerMap == [c \in UpperSet |-> Lowers[CHOOSE i \in 1..26 : Uppers[i] = c]]
UpperMap == [c \in LowerSet |-> Uppers[CHOOSE i \in 1..26 : Lowers[i] = c]]
DigitVal == [c \in DigitSet |-> (CHOOSE i \in 1..10 : Digits[i] = c) - 1]
\* the characters matched by the regex class \s and stripped by str.strip()
WS == {" ", "\t", "\n", "\r", "\f"}

ToLower(c) == IF c \in UpperSet THEN LowerMap[c] ELSE c
ToUpper(c) == IF c \in LowerSet THEN UpperMap[c] ELSE c
lower(s) == [i \in 1..Len(s) |-> ToLower(s[i])]
upper(s) == [i \in 1..Len(s) |-> ToUpper(s[i])]
Min(a, b) == IF a <= b THEN a ELSE b
Max(a, b) == IF a >= b THEN a ELSE b

\* s[a:b] with 0 <= a, b
Slice(s, a, b) == SubSeq(s, a + 1, Min(b, Len(s)))

\* the pattern `lit` matches at 0-based position i of s
\* (ic: re.IGNORECASE)
MatchAt(lit, s, i, ic) ==
    /\ i + Len(lit) <= Len(s)
    /\ \A k \in 1..Len(lit) :
          IF ic THEN ToLower(s[i + k]) = ToLower(lit[k]) ELSE s[i + k] = lit[k]

\* first position >= i of s that holds a character outside (inside) cs
RECURSIVE SkipIn(_, _, _)
SkipIn(s, i, cs) ==
    IF i < Len(s) /\ s[i + 1] \in cs THEN SkipIn(s, i + 1, cs) ELSE i
RECURSIVE SkipOut(_, _, _)
SkipOut(s, i, cs) ==
    IF i < Len(s) /\ s[i + 1] \notin cs THEN SkipOut(s, i + 1, cs) ELSE i

\* str.strip()
RECURSIVE RStripEnd(_, _)
RStripEnd(s, j) == IF j > 0 /\ s[j] \in WS THEN RStripEnd(s, j - 1) ELSE j
strip(s) ==
    LET a == SkipIn(s, 0, WS)
        b == RStripEnd(s, Len(s))
    IN  IF a >= b THEN <<>> ELSE Slice(s, a, b)

\* str.split(): the maximal runs of non-whitespace
RECURSIVE SplitFrom(_, _)
SplitFrom(s, i) ==
    LET a == SkipIn(s, i, WS)
        b == SkipOut(s, a, WS)
    IN  IF a >= Len(s) THEN <<>> ELSE <<Slice(s, a, b)>> \o SplitFrom(s, b)
split(s) == SplitFrom(s, 0)

\* str.split(sep) for a one-character separator
RECURSIVE SplitChar(_, _, _)
SplitChar(s, i, sep) ==
    LET j == SkipOut(s, i, {sep})
    IN  IF j >= Len(s) THEN <<Slice(s, i, Len(s))>>
        ELSE <<Slice(s, i, j)>> \o SplitChar(s, j + 1, sep)

\* re.finditer of an escaped literal: spans (start, end) of the
\* non-overlapping matches, leftmost first
RECURSIVE FindIterFrom(_, _, _, _)
FindIterFrom(lit, s, i, ic) ==
    IF i > Len(s) THEN <<>>
    ELSE IF MatchAt(lit, s, i, ic)
         THEN <<<<i, i + Len(lit)>>>> \o
              FindIterFrom(lit, s, IF Len(lit) = 0 THEN i + 1 ELSE i + Len(lit), ic)
         ELSE FindIterFrom(lit, s, i + 1, ic)
finditer(lit, s, ic) == FindIterFrom(lit, s, 0, ic)

RECURSIVE SumSeq(_)
SumSeq(s) == IF s = <<>> THEN 0 ELSE Head(s) + SumSeq(Tail(s))
RECURSIVE Concat(_)
Concat(ss) == IF ss = <<>> THEN <<>> ELSE Head(ss) \o Concat(Tail(ss))
Range(s) == {s[i] : i \in 1..Len(s)}

(***************************************************************************)
(* Extraction: process_single_pdf and create_search_index                  *)
(***************************************************************************)
\* pdftotext output: every page's text followed by a form feed; "" when the
\* tool fails
extract_pdf_text(pdf) ==
    IF pdf.textOk THEN Concat([k \in 1..Len(pdf.pageTexts) |-> pdf.pageTexts[k] \o <<"\f">>])
    ELSE <<>>

\* the "Pages" entry of pdfinfo; absent when the tool fails
extract_pdf_info(pdf) ==
    IF pdf.infoOk THEN [Pages |-> Len(pdf.pageTexts)] ELSE [none |-> TRUE]

\* one entry of dataset["files"]: the extracted record, or the error entry
\* written when processing raised (stat() failing on the file)
process_single_pdf(pdf) ==
    LET pdf_info  == extract_pdf_info(pdf)
        full_text == extract_pdf_text(pdf)
        pages     == IF "Pages" \in DOMAIN pdf_info THEN pdf_info.Pages ELSE 0
    IN  [filename |-> pdf.name, filepath |-> pdf.name, dataset_number |-> pdf.dataset,
         pages |-> pages, full_text |-> full_text]

process_all_pdfs(pdfs) ==
    [k \in 1..Len(pdfs) |->
        IF pdfs[k].statOk THEN process_single_pdf(pdfs[k])
        ELSE [filename |-> pdfs[k].name, filepath |-> pdfs[k].name,
              dataset_number |-> pdfs[k].dataset, error |-> "stat"]]

\* offsets of the pages of full_text: a running offset over split('\f')
RECURSIVE OffsetsOf(_, _)
OffsetsOf(pages_text, offset) ==
    IF pages_text = <<>> THEN <<>>
    ELSE <<offset>> \o OffsetsOf(Tail(pages_text), offset + Len(Head(pages_text)) + 1)

OffsetsNoSeparator(full_text) ==
    LET RECURSIVE Go(_, _)
        Go(pt, offset) ==
            IF pt = <<>> THEN <<>>
            ELSE <<offset>> \o Go(Tail(pt), offset + Len(Head(pt)))
    IN  Go(SplitChar(full_text, 0, "\f"), 0)

page_offsets_of(full_text) == OffsetsOf(SplitChar(full_text, 0, "\f"), 0)

create_search_index(files) ==
    LET Entry(f) == [dataset |-> f.dataset_number, filename |-> f.filename,
                     filepath |-> f.filepath, pages |-> f.pages,
                     text |-> f.full_text,
                     page_offsets |-> page_offsets_of(f.full_text)]
        Kept(f) == "full_text" \in DOMAIN f /\ "error" \notin DOMAIN f
        kept == SelectSeq(files, Kept)
    IN  [k \in 1..Len(kept) |-> Entry(kept[k])]

\* bisect.bisect_right on a sorted list
bisect_right(a, x) == Cardinality({i \in 1..Len(a) : a[i] <= x})

_position_to_page(position, page_offsets) ==
    LET page_index == bisect_right(page_offsets, position) - 1
    IN  Max(1, page_index + 1)

(***************************************************************************)
(* PDFSearcher: the in-memory backend                                      *)
(***************************************************************************)
context_chars == 300
PAIR_LIMIT == 50

\* the context record of a match spanning [s, e) of text
ContextOf(text, page_offsets, s, e, matched) ==
    LET start == Max(0, s - context_chars)
        end   == Min(Len(text), e + context_chars)
        body  == Slice(text, start, end)
        c1    == IF start > 0 THEN <<".", ".", ".">> \o body ELSE body
        c2    == IF end < Len(text) THEN c1 \o <<".", ".", ".">> ELSE c1
    IN  IF page_offsets # <<>>
        THEN [position |-> s, context |-> c2, match |-> matched,
              page |-> _position_to_page(s, page_offsets)]
        ELSE [position |-> s, context |-> c2, match |-> matched]

HitOf(doc, count, contexts) ==
    [dataset |-> doc.dataset, filename |-> doc.filename, filepath |-> doc.filepath,
     pages |-> doc.pages, match_count |-> count, contexts |-> contexts]

\* PDFSearcher.search with its default flags (case-insensitive, not
\* whole-word), the only way the parser and the API call it
RECURSIVE SearchDocs(_, _)
SearchDocs(docs, query) ==
    IF docs = <<>> THEN <<>>
    ELSE LET doc      == Head(docs)
             matches  == finditer(query, doc.text, TRUE)
             contexts == [k \in 1..Len(matches) |->
                             ContextOf(doc.text, doc.page_offsets,
                                       matches[k][1], matches[k][2],
                                       Slice(doc.text, matches[k][1], matches[k][2]))]
         IN  (IF matches # <<>> THEN <<HitOf(doc, Len(matches), contexts)>> ELSE <<>>)
             \o SearchDocs(Tail(docs), query)
\* a search that stops at the first match of every document
SearchFirstMatch(docs, query) ==
    LET first(doc) == Head(finditer(query, doc.text, TRUE))
        Found(doc) == finditer(query, doc.text, TRUE) # <<>>
        found == SelectSeq(docs, Found)
    IN  [k \in 1..Len(found) |->
            HitOf(found[k], 1,
                  <<ContextOf(found[k].text, found[k].page_offsets,
                              first(found[k])[1], first(found[k])[2],
                              Slice(found[k].text, first(found[k])[1],
                                    first(found[k])[2]))>>)]
search(docs, query) == SearchDocs(docs, query)

Filenames(results) == {results[k].filename : k \in 1..Len(results)}

RECURSIVE AndFilesUnion(_, _, _)
AndFilesUnion(docs, queries, result_files) ==
    IF queries = <<>> THEN result_files
    ELSE AndFilesUnion(docs, Tail(queries),
                       result_files \cup Filenames(search(docs, Head(queries))))

\* the AND branch: result_files &= query_files over queries[1:]
RECURSIVE AndFiles(_, _, _)
AndFiles(docs, queries, result_files) ==
    IF queries = <<>> THEN result_files
    ELSE AndFiles(docs, Tail(queries),
                  result_files \cap Filenames(search(docs, Head(queries))))

\* a merge that adds to the records already present and drops the others
RECURSIVE OrMergeHitsKnownOnly(_, _)
OrMergeHitsKnownOnly(all_results, hits) ==
    IF hits = <<>> THEN all_results
    ELSE LET result == Head(hits)
         IN  OrMergeHitsKnownOnly(
                 [k \in 1..Len(all_results) |->
                     IF all_results[k].filename = result.filename
                     THEN [all_results[k] EXCEPT
                             !.match_count = @ + result.match_count,
                             !.contexts = @ \o result.contexts]
                     ELSE all_results[k]],
                 Tail(hits))

\* a merge that keeps the first record of a filename as it is
RECURSIVE OrMergeHitsKeepFirst(_, _)
OrMergeHitsKeepFirst(all_results, hits) ==
    IF hits = <<>> THEN all_results
    ELSE OrMergeHitsKeepFirst(
             IF \E k \in 1..Len(all_results) :
                   all_results[k].filename = Head(hits).filename
             THEN all_results ELSE Append(all_results, Head(hits)),
             Tail(hits))

\* a merge that adds the match counts and leaves the contexts
RECURSIVE OrMergeHitsSumOnly(_, _)
OrMergeHitsSumOnly(all_results, hits) ==
    IF hits = <<>> THEN all_results
    ELSE OrMergeHitsSumOnly(
             IF \E k \in 1..Len(all_results) :
                   all_results[k].filename = Head(hits).filename
             THEN [k \in 1..Len(all_results) |->
                     IF all_results[k].filename = Head(hits).filename
                     THEN [all_results[k] EXCEPT
                             !.match_count = @ + Head(hits).match_count]
                     ELSE all_results[k]]
             ELSE Append(all_results, Head(hits)),
             Tail(hits))

\* the OR branch: all_results, a dict in insertion order
RECURSIVE OrMergeHits(_, _)
OrMergeHits(all_results, hits) ==
    IF hits = <<>> THEN all_results
    ELSE LET result == Head(hits)
             known  == {k \in 1..Len(all_results) :
                           all_results[k].filename = result.filename}
             merged ==
                IF known = {} THEN Append(all_results, result)
                ELSE [k \in 1..Len(all_results) |->
                        IF k \in known
                        THEN [all_results[k] EXCEPT
                                !.match_count = @ + result.match_count,
                                !.contexts = @ \o result.contexts]
                        ELSE all_results[k]]
         IN  OrMergeHits(merged, Tail(hits))
RECURSIVE OrResults(_, _, _)
OrResults(docs, queries, all_results) ==
    IF queries = <<>> THEN all_results
    ELSE OrResults(docs, Tail(queries),
                   OrMergeHits(all_results, search(docs, Head(queries))))

\* a search_multiple that takes the OR branch whatever the operator
SearchMultipleAlwaysOr(docs, queries, operator) == OrResults(docs, queries, <<>>)

search_multiple(docs, queries, operator) ==
    LET Intersect(results) ==
            LET Keep(r) == r.filename \in
                              AndFiles(docs, Tail(queries), Filenames(results))
            IN  SelectSeq(results, Keep)
    IN  IF upper(operator) = <<"A", "N", "D">>
        THEN Intersect(search(docs, queries[1]))
        ELSE OrResults(docs, queries, <<>>)

PairsForOneMore(text, s1, e1, positions2, max_distance) ==
    LET Near(p) ==
            LET start == Min(e1, p[2])
                end   == Max(s1, p[1])
            IN  /\ start < end
                /\ Len(split(strip(Slice(text, start, end)))) <= max_distance + 1
        near == SelectSeq(positions2, Near)
    IN  [k \in 1..Len(near) |-> <<Min(s1, near[k][1]), Max(e1, near[k][2])>>]

\* the qualifying pairs of one occurrence (s1, e1) of term1
PairsFor(text, s1, e1, positions2, max_distance) ==
    LET Near(p) ==
            LET start == Min(e1, p[2])
                end   == Max(s1, p[1])
            IN  /\ start < end
                /\ Len(split(strip(Slice(text, start, end)))) <= max_distance
        near == SelectSeq(positions2, Near)
    IN  [k \in 1..Len(near) |-> <<Min(s1, near[k][1]), Max(e1, near[k][2])>>]

\* the loop over positions1, left once PAIR_LIMIT pairs were collected
RECURSIVE FoundPairs(_, _, _, _, _)
FoundPairs(text, positions1, positions2, max_distance, found_pairs) ==
    IF positions1 = <<>> THEN found_pairs
    ELSE LET found == found_pairs \o PairsFor(text, Head(positions1)[1],
                                              Head(positions1)[2], positions2,
                                              max_distance)
         IN  IF Len(found) >= PAIR_LIMIT THEN found
             ELSE FoundPairs(text, Tail(positions1), positions2, max_distance, found)

RECURSIVE ProximityDocs(_, _, _, _)
ProximityDocs(docs, term1, term2, max_distance) ==
    LET Hit(doc, found_pairs) ==
            IF found_pairs # <<>>
            THEN <<HitOf(doc, Len(found_pairs),
                         [k \in 1..Len(found_pairs) |->
                            ContextOf(doc.text, doc.page_offsets,
                                      found_pairs[k][1], found_pairs[k][2],
                                      term1 \o <<".", ".", ".">> \o term2)])>>
            ELSE <<>>
        Pairs(doc, positions1, positions2) ==
            Hit(doc, IF positions1 = <<>> \/ positions2 = <<>> THEN <<>>
                     ELSE FoundPairs(doc.text, positions1, positions2, max_distance, <<>>))
        Doc(doc) == Pairs(doc, finditer(term1, doc.text, TRUE),
                          finditer(term2, doc.text, TRUE))
    IN  IF docs = <<>> THEN <<>>
        ELSE Doc(Head(docs)) \o ProximityDocs(Tail(docs), term1, term2, max_distance)
search_proximity(docs, term1, term2, max_distance) ==
    ProximityDocs(docs, term1, term2, max_distance)

(***************************************************************************)
(* Query parsing shared by _parse_and_search and _translate_query          *)
(***************************************************************************)
RECURSIVE IntToDigits(_)
IntToDigits(n) ==
    IF n < 10 THEN <<Digits[n + 1]>>
    ELSE IntToDigits(n \div 10) \o <<Digits[(n % 10) + 1]>>
RECURSIVE DigitsToInt(_, _)
DigitsToInt(ds, acc) ==
    IF ds = <<>> THEN acc ELSE DigitsToInt(Tail(ds), acc * 10 + DigitVal[Head(ds)])

\* json.dumps and json.loads of a list of non-negative integers
RECURSIVE DumpItems(_)
DumpItems(xs) ==
    IF xs = <<>> THEN <<>>
    ELSE IF Len(xs) = 1 THEN IntToDigits(xs[1])
    ELSE IntToDigits(xs[1]) \o <<",", " ">> \o DumpItems(Tail(xs))
json_dumps(xs) == <<"[">> \o DumpItems(xs) \o <<"]">>
RECURSIVE LoadItems(_, _)
LoadItems(s, i) ==
    LET a == SkipOut(s, i, DigitSet)
        b == SkipIn(s, a, DigitSet)
    IN  IF a >= Len(s) THEN <<>>
        ELSE <<DigitsToInt(Slice(s, a, b), 0)>> \o LoadItems(s, b)
json_loads(s) == LoadItems(s, 0)

Placeholder(k) == <<"_", "_", "P", "H">> \o IntToDigits(k) \o <<"_", "_">>

\* re.sub(r'"([^"]+)"', replace_phrase, query): the working string and the
\* extracted phrases; keep_quotes selects m.group(0) over m.group(1)
RECURSIVE ExtractPhrases(_, _, _, _, _)
ExtractPhrases(s, i, out, phrases, keep_quotes) ==
    IF i >= Len(s) THEN [working |-> out, phrases |-> phrases]
    ELSE LET j == SkipOut(s, i + 1, {"\""})
         IN  IF s[i + 1] = "\"" /\ j < Len(s) /\ j > i + 1
             THEN ExtractPhrases(s, j + 1, out \o Placeholder(Len(phrases)),
                     Append(phrases, IF keep_quotes THEN Slice(s, i, j + 1)
                                     ELSE Slice(s, i + 1, j)),
                     keep_quotes)
             ELSE ExtractPhrases(s, i + 1, Append(out, s[i + 1]), phrases, keep_quotes)

\* the value standing for a raised IndexError (phrases[int(...)] out of range)
IndexError == <<"IndexError!">>

\* restore(s): re.sub(r"__PH(\d+)__", lambda m: phrases[int(m.group(1))], s)
RECURSIVE RestoreFrom(_, _, _, _)
RestoreFrom(s, i, out, phrases) ==
    IF i >= Len(s) THEN out
    ELSE LET d0 == i + 4
             d1 == SkipIn(s, d0, DigitSet)
             n  == DigitsToInt(Slice(s, d0, d1), 0)
         IN  IF /\ MatchAt(<<"_", "_", "P", "H">>, s, i, FALSE)
                /\ d1 > d0
                /\ MatchAt(<<"_", "_">>, s, d1, FALSE)
             THEN IF n < Len(phrases)
                  THEN RestoreFrom(s, d1 + 2, out \o phrases[n + 1], phrases)
                  ELSE IndexError
             ELSE RestoreFrom(s, i + 1, Append(out, s[i + 1]), phrases)
restore(s, phrases) == RestoreFrom(s, 0, <<>>, phrases)

\* a match of (\S+)\s+NEAR/(\d+)\s+(\S+) starting at i, or none
NearMatchAt(s, i) ==
    LET a  == SkipOut(s, i, WS)
        b  == SkipIn(s, a, WS)
        d0 == b + 5
        d1 == SkipIn(s, d0, DigitSet)
        c  == SkipIn(s, d1, WS)
        e  == SkipOut(s, c, WS)
    IN  IF /\ a > i /\ b > a
           /\ MatchAt(<<"N", "E", "A", "R", "/">>, s, b, TRUE)
           /\ d1 > d0 /\ c > d1 /\ e > c
        THEN [found |-> TRUE, g1 |-> Slice(s, i, a), g2 |-> Slice(s, d0, d1),
              g3 |-> Slice(s, c, e), end |-> e]
        ELSE [found |-> FALSE]

\* re.sub of the NEAR pattern: the matches, left to right, and the pieces
\* of text around them (Len(pieces) = Len(matches) + 1)
RECURSIVE NearScan(_, _, _, _, _)
NearScan(s, i, piece, pieces, matches) ==
    IF i >= Len(s) THEN [pieces |-> Append(pieces, piece), matches |-> matches]
    ELSE LET m == NearMatchAt(s, i)
         IN  IF m.found
             THEN NearScan(s, m.end, <<>>, Append(pieces, piece), Append(matches, m))
             ELSE NearScan(s, i + 1, Append(piece, s[i + 1]), pieces, matches)

\* a match of \s+OP\s+ (IGNORECASE) starting at i: its end, or -1
OpMatchEnd(s, i, op) ==
    LET b  == SkipIn(s, i, WS)
        c0 == b + Len(op)
        c  == SkipIn(s, c0, WS)
    IN  IF b > i /\ MatchAt(op, s, b, TRUE) /\ c > c0 THEN c ELSE -1

\* re.split(r"\s+OP\s+", s, flags=re.IGNORECASE)
RECURSIVE SplitOp(_, _, _, _)
SplitOp(s, i, part, op) ==
    IF i >= Len(s) THEN <<part>>
    ELSE LET c == OpMatchEnd(s, i, op)
         IN  IF c >= 0 THEN <<part>> \o SplitOp(s, c, <<>>, op)
             ELSE SplitOp(s, i + 1, Append(part, s[i + 1]), op)
re_split(op, s) == SplitOp(s, 0, <<>>, op)

\* sub in s
Contains(s, sub) == \E i \in 0..Len(s) : MatchAt(sub, s, i, FALSE)

OpAND == <<"A", "N", "D">>
OpOR  == <<"O", "R">>
OpNOT == <<"N", "O", "T">>

(***************************************************************************)
(* The FTS5 table: tokenize='porter unicode61' and the MATCH operator      *)
(***************************************************************************)
AlnumSet == UpperSet \cup LowerSet \cup DigitSet
\* characters of an FTS5 bareword
BareSet == AlnumSet \cup {"_"}

\* unicode61: the maximal alphanumeric runs, lower-cased
RECURSIVE TokensFrom(_, _)
TokensFrom(s, i) ==
    LET a == SkipOut(s, i, AlnumSet)
        b == SkipIn(s, a, AlnumSet)
    IN  IF a >= Len(s) THEN <<>> ELSE <<lower(Slice(s, a, b))>> \o TokensFrom(s, b)

EndsWith(t, suf) == Len(t) >= Len(suf) /\ SubSeq(t, Len(t) - Len(suf) + 1, Len(t)) = suf
DropLast(t, n) == SubSeq(t, 1, Len(t) - n)
\* porter: plural removal (step 1a), applied to tokens longer than two
\* characters
Stem(t) ==
    IF Len(t) <= 2 THEN t
    ELSE IF EndsWith(t, <<"s", "s", "e", "s">>) THEN DropLast(t, 2)
    ELSE IF EndsWith(t, <<"i", "e", "s">>) THEN DropLast(t, 2)
    ELSE IF EndsWith(t, <<"s", "s">>) THEN t
    ELSE IF EndsWith(t, <<"s">>) THEN DropLast(t, 1)
    ELSE t
tokenize(s) == LET ts == TokensFrom(s, 0) IN [k \in 1..Len(ts) |-> Stem(ts[k])]

\* lexemes of an FTS5 query: barewords, "strings", the NEAR(a b, N) group;
\* any other character is a syntax error
RECURSIVE FtsLex(_, _, _)
FtsLex(q, i, out) ==
    IF i >= Len(q) THEN out
    ELSE LET c == q[i + 1] IN
         IF c \in WS THEN FtsLex(q, i + 1, out)
         ELSE IF c = "\""
         THEN LET j == SkipOut(q, i + 1, {"\""})
              IN  IF j >= Len(q) THEN <<[kind |-> "error"]>>
                  ELSE FtsLex(q, j + 1,
                         Append(out, [kind |-> "phrase",
                                      tokens |-> tokenize(Slice(q, i + 1, j))]))
         ELSE IF MatchAt(<<"N", "E", "A", "R", "(">>, q, i, FALSE)
         THEN LET j     == SkipOut(q, i, {")"})
                  comma == SkipOut(q, i, {","})
                  inner == FtsLex(Slice(q, i + 5, comma), 0, <<>>)
                  num   == strip(Slice(q, comma + 1, j))
              IN  IF \/ j >= Len(q) \/ comma >= j \/ num = <<>>
                     \/ Range(num) \ DigitSet # {}
                     \/ inner = <<>>
                     \/ \E k \in 1..Len(inner) : inner[k].kind # "phrase"
                  THEN <<[kind |-> "error"]>>
                  ELSE FtsLex(q, j + 1,
                         Append(out, [kind |-> "near",
                                      phrases |-> [k \in 1..Len(inner) |-> inner[k].tokens],
                                      n |-> DigitsToInt(num, 0)]))
         ELSE IF c \in BareSet
         THEN LET j == SkipIn(q, i, BareSet)
                  w == Slice(q, i, j)
              IN  FtsLex(q, j, Append(out,
                     IF w \in {OpAND, OpOR, OpNOT} THEN [kind |-> "op", op |-> w]
                     ELSE [kind |-> "phrase", tokens |-> tokenize(w)]))
         ELSE <<[kind |-> "error"]>>

\* start positions (1-based token index) of the instances of a phrase
PhraseStarts(doc_tokens, phrase) ==
    IF phrase = <<>> THEN {}
    ELSE {p \in 1..(Len(doc_tokens) - Len(phrase) + 1) :
             \A k \in 1..Len(phrase) : doc_tokens[p + k - 1] = phrase[k]}

\* NEAR(p1 p2, n): instance pairs with at most n tokens between them
NearPairs(doc_tokens, p1, p2, n) ==
    {pr \in PhraseStarts(doc_tokens, p1) \X PhraseStarts(doc_tokens, p2) :
        \/ pr[1] + Len(p1) <= pr[2] /\ pr[2] - (pr[1] + Len(p1)) <= n
        \/ pr[2] + Len(p2) <= pr[1] /\ pr[1] - (pr[2] + Len(p2)) <= n}

\* split a lexeme list at the operator op
RECURSIVE LexSplit(_, _, _)
LexSplit(lexs, part, op) ==
    IF lexs = <<>> THEN <<part>>
    ELSE IF Head(lexs).kind = "op" /\ Head(lexs).op = op
         THEN <<part>> \o LexSplit(Tail(lexs), <<>>, op)
         ELSE LexSplit(Tail(lexs), Append(part, Head(lexs)), op)

\* a primary: [match, marks] for one document
FtsPrimary(lex, doc_tokens) ==
    LET Phrase(st) == [match |-> st # {}, marks |-> Cardinality(st)]
        Near(ps) ==
            [match |-> ps # {},
             marks |-> Cardinality({pr[1] : pr \in ps}) +
                       (IF Len(lex.phrases) = 1 THEN 0
                        ELSE Cardinality({pr[2] : pr \in ps}))]
    IN  IF lex.kind = "phrase" THEN Phrase(PhraseStarts(doc_tokens, lex.tokens))
        ELSE Near(IF Len(lex.phrases) = 1
                  THEN {<<x, x>> : x \in PhraseStarts(doc_tokens, lex.phrases[1])}
                  ELSE NearPairs(doc_tokens, lex.phrases[1], lex.phrases[2], lex.n))

\* all operands match: the marks add up
FtsAll(rs) ==
    IF \A k \in 1..Len(rs) : rs[k].match
    THEN [match |-> TRUE, marks |-> SumSeq([k \in 1..Len(rs) |-> rs[k].marks])]
    ELSE [match |-> FALSE, marks |-> 0]

\* juxtaposed primaries: implicit AND
FtsImplicit(lexs, doc_tokens) ==
    FtsAll([k \in 1..Len(lexs) |-> FtsPrimary(lexs[k], doc_tokens)])

\* a NOT b NOT c
FtsNot(lexs, doc_tokens) ==
    LET Minus(rs) ==
            IF rs[1].match /\ \A k \in 2..Len(rs) : ~rs[k].match
            THEN [match |-> TRUE, marks |-> rs[1].marks]
            ELSE [match |-> FALSE, marks |-> 0]
        Operands(parts) == [k \in 1..Len(parts) |-> FtsImplicit(parts[k], doc_tokens)]
    IN  Minus(Operands(LexSplit(lexs, <<>>, OpNOT)))

FtsAnd(lexs, doc_tokens) ==
    LET Operands(parts) == [k \in 1..Len(parts) |-> FtsNot(parts[k], doc_tokens)]
    IN  FtsAll(Operands(LexSplit(lexs, <<>>, OpAND)))

FtsOr(lexs, doc_tokens) ==
    LET Either(rs) == [match |-> \E k \in 1..Len(rs) : rs[k].match,
                    marks |-> SumSeq([k \in 1..Len(rs) |-> rs[k].marks])]
        Operands(parts) == [k \in 1..Len(parts) |-> FtsAnd(parts[k], doc_tokens)]
    IN  Either(Operands(LexSplit(lexs, <<>>, OpOR)))

\* the query is rejected: a lexical error, or an operator lacking an operand
FtsSyntaxError(lexs) ==
    \/ lexs = <<>>
    \/ \E k \in 1..Len(lexs) : lexs[k].kind = "error"
    \/ lexs[1].kind = "op" \/ lexs[Len(lexs)].kind = "op"
    \/ \E k \in 1..(Len(lexs) - 1) : lexs[k].kind = "op" /\ lexs[k + 1].kind = "op"

\* documents_fts MATCH fts_query against one stored text
fts_match(fts_query, text) == FtsOr(FtsLex(fts_query, 0, <<>>), tokenize(text))

(***************************************************************************)
(* SQLiteSearcher: the FTS5 backend                                        *)
(***************************************************************************)
\* Python's None where an integer is expected; a NULL page_offsets column
\* is the empty list (the code treats both as absent)
None == -1

\* Python values whose type decides what _parse_and_search can do with
\* them: a hit is a record with a filename, a list and an int are wrapped
PyList(items) == [type |-> "list", items |-> items]
PyInt(n) == [type |-> "int", val |-> n]
PyTuple(results, total) ==
    [type |-> "tuple", items |-> <<PyList(results), PyInt(total)>>]
Raise(exc) == [type |-> "raise", exc |-> exc]
IsHit(x) == "filename" \in DOMAIN x

RECURSIVE JoinWith(_, _)
JoinWith(parts, sep) ==
    IF Len(parts) = 1 THEN parts[1]
    ELSE parts[1] \o sep \o JoinWith(Tail(parts), sep)

\* SQLiteSearcher._translate_query; IndexError when restore raises
_translate_query(query) ==
    LET \* the final restore of the remaining placeholders, and the strip
        Finish(working, phrases) ==
            LET Stripped(final) == IF final = IndexError THEN IndexError ELSE strip(final)
            IN  Stripped(restore(working, phrases))
        \* NEAR(t1 t2, N) for one match of the NEAR pattern
        near_replace(m, phrases) ==
            LET Group(t1, t2) ==
                    IF t1 = IndexError \/ t2 = IndexError THEN IndexError
                    ELSE <<"N", "E", "A", "R", "(">> \o t1 \o <<" ">> \o t2
                         \o <<",", " ">> \o m.g2 \o <<")">>
            IN  Group(restore(m.g1, phrases), restore(m.g3, phrases))
        Translate(ns, phrases) ==
            LET Woven(reps) ==
                    IF IndexError \in Range(reps) THEN IndexError
                    ELSE Finish(JoinWith(re_split(OpAND,
                                    Concat([k \in 1..Len(ns.pieces) |->
                                              IF k <= Len(reps) THEN ns.pieces[k] \o reps[k]
                                              ELSE ns.pieces[k]])),
                                    <<" ">>),
                                phrases)
            IN  Woven([k \in 1..Len(ns.matches) |-> near_replace(ns.matches[k], phrases)])
        Phrases(ex) == Translate(NearScan(ex.working, 0, <<>>, <<>>, <<>>), ex.phrases)
    IN  Phrases(ExtractPhrases(query, 0, <<>>, <<>>, TRUE))

\* rows of documents_fts JOIN documents ON d.id = documents_fts.rowid
JoinRows(db) ==
    LET DocOf(rowid) == {k \in 1..Len(db.documents) : db.documents[k].id = rowid}
        pairs == [k \in 1..Len(db.documents_fts) |->
                    [fts |-> db.documents_fts[k],
                     docs |-> DocOf(db.documents_fts[k].rowid)]]
        Joined(pr) == pr.docs # {}
        kept == SelectSeq(pairs, Joined)
    IN  [k \in 1..Len(kept) |->
            [fts |-> kept[k].fts, d |-> db.documents[CHOOSE x \in kept[k].docs : TRUE]]]

\* SQLiteSearcher._execute_fts: the count query, then the page of rows with
\* their snippets; OperationalError when FTS5 rejects the query.  Rows come
\* in rowid order (the bm25 order is not modelled), and the snippet of a
\* row is its whole text, as it is for texts shorter than 64 tokens.
_execute_fts(db, fts_query, query, dataset, limit, offset) ==
    LET ResultOf(sr) ==
            LET Built(page_offsets) ==
                    [dataset |-> sr.row.d.dataset, filename |-> sr.row.d.filename,
                     filepath |-> sr.row.d.filepath, pages |-> sr.row.d.pages,
                     match_count |-> Max(1, sr.m.marks),
                     contexts |-> <<IF Len(page_offsets) > 1
                                    THEN [position |-> 0, context |-> sr.row.fts.text,
                                          match |-> query, page |-> 1]
                                    ELSE [position |-> 0, context |-> sr.row.fts.text,
                                          match |-> query]>>]
            IN  Built(IF sr.row.d.page_offsets # <<>>
                      THEN json_loads(sr.row.d.page_offsets) ELSE <<>>)
        Matches(sr) ==
            /\ sr.m.match
            /\ (dataset # None => sr.row.d.dataset = dataset)
        Page(matched) ==
            LET Rows(rows) == PyTuple([k \in 1..Len(rows) |-> ResultOf(rows[k])],
                                      Len(matched))
            IN  IF Len(matched) = 0 THEN PyTuple(<<>>, 0)
                ELSE Rows(IF limit = None THEN matched
                          ELSE Slice(matched, offset, offset + limit))
        \* every joined row with the outcome of MATCH on its text
        Scored(lexs, joined) ==
            IF FtsSyntaxError(lexs) THEN Raise("OperationalError")
            ELSE Page(SelectSeq([k \in 1..Len(joined) |->
                                    [row |-> joined[k],
                                     m |-> FtsOr(lexs, tokenize(joined[k].fts.text))]],
                                Matches))
    IN  Scored(FtsLex(fts_query, 0, <<>>), JoinRows(db))

\* a fallback text that is the query as it came
SanitizeKeepsAll(query) == strip(query)

\* re.sub(r'[^\w\s"]', '', query).strip()
Sanitize(query) ==
    LET Kept(c) == c \in BareSet \cup WS \cup {"\""}
    IN  strip(SelectSeq(query, Kept))

\* SQLiteSearcher.search
SQLiteSearcher_search(db, query, dataset, limit, offset) ==
    LET \* the except branch: once more with the sanitized query
        Fallback(simple, fts_query) ==
            LET Second(second) ==
                    IF second.type # "raise" THEN second ELSE PyTuple(<<>>, 0)
            IN  IF simple # <<>> /\ simple # fts_query
                THEN Second(_execute_fts(db, simple, query, dataset, limit, offset))
                ELSE PyTuple(<<>>, 0)
        Try(fts_query) ==
            LET First(first) ==
                    IF first.type # "raise" THEN first
                    ELSE Fallback(Sanitize(query), fts_query)
            IN  IF fts_query = IndexError THEN Raise("IndexError")
                ELSE IF fts_query = <<>> THEN PyTuple(<<>>, 0)
                ELSE First(_execute_fts(db, fts_query, query, dataset, limit, offset))
    IN  Try(_translate_query(query))

\* the fts queries SQLiteSearcher.search hands to _execute_fts, in order
SQLiteSearcher_search_executed(db, query, dataset, limit, offset) ==
    LET Fallback(simple, fts_query) ==
            IF simple # <<>> /\ simple # fts_query
            THEN <<fts_query, simple>> ELSE <<fts_query>>
        Try(fts_query) ==
            IF fts_query = IndexError \/ fts_query = <<>> THEN <<>>
            ELSE IF _execute_fts(db, fts_query, query, dataset, limit, offset).type
                    # "raise"
            THEN <<fts_query>>
            ELSE Fallback(Sanitize(query), fts_query)
    IN  Try(_translate_query(query))

SQLiteSearcher_search_multiple(db, queries, operator) ==
    LET combined == IF upper(operator) = OpAND
                    THEN JoinWith(queries, <<" ">>)
                    ELSE JoinWith(queries, <<" ", "O", "R", " ">>)
    IN  SQLiteSearcher_search(db, combined, None, None, 0)

SQLiteSearcher_search_proximity(db, term1, term2, max_distance) ==
    SQLiteSearcher_search(db,
        term1 \o <<" ", "N", "E", "A", "R", "/">> \o IntToDigits(max_distance)
              \o <<" ">> \o term2,
        None, None, 0)

(***************************************************************************)
(* _parse_and_search                                                       *)
(***************************************************************************)
PDFSearcher(docs) == [kind |-> "pdf", data |-> docs]
SQLiteSearcher(db) == [kind |-> "sqlite", db |-> db]

Backend_search(searcher, query) ==
    IF searcher.kind = "pdf" THEN PyList(search(searcher.data, query))
    ELSE SQLiteSearcher_search(searcher.db, query, None, None, 0)
Backend_search_multiple(searcher, queries, operator) ==
    IF searcher.kind = "pdf"
    THEN PyList(search_multiple(searcher.data, queries, operator))
    ELSE SQLiteSearcher_search_multiple(searcher.db, queries, operator)
Backend_search_proximity(searcher, term1, term2, max_distance) ==
    IF searcher.kind = "pdf"
    THEN PyList(search_proximity(searcher.data, term1, term2, max_distance))
    ELSE SQLiteSearcher_search_proximity(searcher.db, term1, term2, max_distance)

NonEmpty(t) == t # <<>>
\* terms that are split at OR as well
RestoredTermsSplitOr(parts, phrases) ==
    LET pieces   == Concat([k \in 1..Len(parts) |-> re_split(OpOR, parts[k])])
        stripped == [k \in 1..Len(pieces) |-> strip(pieces[k])]
        kept     == SelectSeq(stripped, NonEmpty)
    IN  [k \in 1..Len(kept) |-> restore(kept[k], phrases)]

\* [restore(t.strip()) for t in parts if t.strip()]
RestoredTerms(parts, phrases) ==
    LET stripped == [k \in 1..Len(parts) |-> strip(parts[k])]
        kept     == SelectSeq(stripped, NonEmpty)
    IN  [k \in 1..Len(kept) |-> restore(kept[k], phrases)]

\* {r["filename"]: r for r in results}: a dict in insertion order, a later
\* record replacing an earlier one of the same filename in place
RECURSIVE DictOf(_, _)
DictOf(results, map) ==
    IF results = <<>> THEN map
    ELSE LET r     == Head(results)
             known == {k \in 1..Len(map) : map[k].filename = r.filename}
         IN  DictOf(Tail(results),
                    IF known = {} THEN Append(map, r)
                    ELSE [k \in 1..Len(map) |-> IF k \in known THEN r ELSE map[k]])

\* steps 1 to 4: the parsed query
ParseQuery(query) ==
    LET \* step 4: AND before OR, else one term
        Step4(phrases, pairs, not_terms, working, and_parts, or_parts) ==
            [phrases |-> phrases,
             proximity_pairs |-> pairs,
             not_terms |-> not_terms,
             working |-> working,
             operator |-> IF Len(and_parts) > 1 THEN OpAND
                          ELSE IF Len(or_parts) > 1 THEN OpOR ELSE <<>>,
             terms |-> IF Len(and_parts) > 1 THEN RestoredTerms(and_parts, phrases)
                       ELSE IF Len(or_parts) > 1 THEN RestoredTerms(or_parts, phrases)
                       ELSE <<restore(working, phrases)>>]
        Operators(phrases, pairs, not_terms, working) ==
            Step4(phrases, pairs, not_terms, working,
                  re_split(OpAND, working), re_split(OpOR, working))
        \* step 3: the part before the first NOT stays, the others are exclusions
        Split3(phrases, pairs, working, parts) ==
            IF Contains(upper(working), <<" ">> \o OpNOT \o <<" ">>)
            THEN Operators(phrases, pairs, RestoredTerms(Tail(parts), phrases),
                           strip(strip(parts[1])))
            ELSE Operators(phrases, pairs, <<>>, strip(working))
        Step3(phrases, pairs, working) ==
            Split3(phrases, pairs, working, re_split(OpNOT, working))
        \* step 2: the NEAR pairs, removed from the working string
        Step2(phrases, ns) ==
            Step3(phrases,
                  [k \in 1..Len(ns.matches) |->
                     [term1 |-> restore(ns.matches[k].g1, phrases),
                      term2 |-> restore(ns.matches[k].g3, phrases),
                      distance |-> DigitsToInt(ns.matches[k].g2, 0)]],
                  strip(Concat(ns.pieces)))
        \* step 1: the quoted phrases
        Step1(ex) == Step2(ex.phrases, NearScan(ex.working, 0, <<>>, <<>>, <<>>))
    IN  Step1(ExtractPhrases(query, 0, <<>>, <<>>, FALSE))

\* a list of hit records, the only value r["filename"] works on
AllHits(x) == x.type = "list" /\ \A k \in 1..Len(x.items) : IsHit(x.items[k])

\* a loop that calls the backend once per element and reads r["filename"] of
\* every r of what it returns stops at the first call that raises or that
\* returns something else than hit records: that call's index, or 0
FirstBad(results) ==
    LET bad == {k \in 1..Len(results) : ~AllHits(results[k])}
    IN  IF bad = {} THEN 0 ELSE CHOOSE k \in bad : \A j \in bad : k <= j

\* the exception a bad call ends the loop with
Failure(result) == IF result.type = "raise" THEN result ELSE Raise("TypeError")

\* steps 4 to 6 for a parsed query: the value returned or the exception
\* raised, and the backend calls made
_parse_and_search(searcher, query) ==
    LET Steps(pq, primary, not_results, prox_results) ==
            LET restore_failed ==
                    \/ \E k \in 1..Len(pq.proximity_pairs) :
                          \/ pq.proximity_pairs[k].term1 = IndexError
                          \/ pq.proximity_pairs[k].term2 = IndexError
                    \/ IndexError \in Range(pq.not_terms)
                    \/ IndexError \in Range(pq.terms)
                searched == pq.operator # <<>> \/ pq.terms[1] # <<>>
                \* step 5
                not_bad   == FirstBad(not_results)
                not_items == Concat([k \in 1..Len(not_results) |-> not_results[k].items])
                Kept(r)   == r.filename \notin
                                {not_items[k].filename : k \in 1..Len(not_items)}
                step5 ==
                    IF primary.type = "raise" THEN primary
                    ELSE IF pq.not_terms = <<>> THEN primary
                    ELSE IF not_bad # 0 THEN Failure(not_results[not_bad])
                    ELSE IF ~AllHits(primary) THEN Raise("TypeError")
                    ELSE PyList(SelectSeq(primary.items, Kept))
                \* step 6
                prox_bad   == FirstBad(prox_results)
                prox_items == Concat([k \in 1..Len(prox_results) |->
                                        prox_results[k].items])
                step6 ==
                    IF step5.type = "raise" THEN step5
                    ELSE IF pq.proximity_pairs = <<>> THEN step5
                    ELSE IF ~AllHits(step5) THEN Raise("TypeError")
                    ELSE IF prox_bad # 0 THEN Failure(prox_results[prox_bad])
                    ELSE PyList(OrMergeHits(DictOf(step5.items, <<>>), prox_items))
                calls4 ==
                    IF ~searched THEN <<>>
                    ELSE IF pq.operator # <<>>
                    THEN <<[method |-> "search_multiple", args |-> pq.terms]>>
                    ELSE <<[method |-> "search", args |-> pq.terms]>>
                calls5 ==
                    IF primary.type = "raise" THEN <<>>
                    ELSE [k \in 1..(IF not_bad # 0 THEN not_bad ELSE Len(pq.not_terms)) |->
                            [method |-> "search", args |-> <<pq.not_terms[k]>>]]
                calls6 ==
                    IF step5.type = "raise" \/ ~AllHits(step5) THEN <<>>
                    ELSE [k \in 1..(IF prox_bad # 0 THEN prox_bad
                                    ELSE Len(pq.proximity_pairs)) |->
                            [method |-> "search_proximity",
                             args |-> <<pq.proximity_pairs[k].term1,
                                        pq.proximity_pairs[k].term2>>]]
            IN  [value |-> IF restore_failed THEN Raise("IndexError") ELSE step6,
                 phrases |-> pq.phrases, not_terms |-> pq.not_terms,
                 proximity_pairs |-> pq.proximity_pairs, terms |-> pq.terms,
                 operator |-> pq.operator,
                 calls |-> IF restore_failed THEN <<>> ELSE calls4 \o calls5 \o calls6]
        Calls(pq) ==
            Steps(pq,
                  \* step 4
                  IF pq.operator # <<>>
                  THEN Backend_search_multiple(searcher, pq.terms, pq.operator)
                  ELSE IF pq.terms[1] # <<>> THEN Backend_search(searcher, pq.terms[1])
                  ELSE PyList(<<>>),
                  [k \in 1..Len(pq.not_terms) |->
                     Backend_search(searcher, pq.not_terms[k])],
                  [k \in 1..Len(pq.proximity_pairs) |->
                     Backend_search_proximity(searcher,
                         pq.proximity_pairs[k].term1,
                         pq.proximity_pairs[k].term2,
                         pq.proximity_pairs[k].distance)])
    IN  Calls(ParseQuery(query))

(***************************************************************************)
(* /api/search                                                             *)
(***************************************************************************)
CONTEXT_CAP == 50

\* list.sort(key=...): a stable sort; keys[i] is the key of s[i]
StableSort(s, keys) ==
    LET n == Len(s)
        pos(i) == 1 + Cardinality({j \in 1..n :
                         \/ keys[j] < keys[i]
                         \/ (keys[j] = keys[i] /\ j < i)})
    IN  [p \in 1..n |-> s[CHOOSE i \in 1..n : pos(i) = p]]

\* string order of the one-letter filenames
NameKey(f) == CHOOSE i \in 1..26 : Uppers[i] = f

PageStartOffByOne(page, per_page) == page * per_page
\* start = (page - 1) * per_page
PageStart(page, per_page) == (page - 1) * per_page

\* the handler's locals at its return: the filtered and sorted list, and
\* the response
search_api(searcher_loaded, docs, q, page, per_page, dataset, min_pages, max_pages, sort) ==
    LET F1(r) == dataset # None => r.dataset = dataset
        F2(r) == r.pages >= min_pages
        F3(r) == max_pages # None => r.pages <= max_pages
        Response(results, page_results) ==
            [status |-> 200, sorted |-> results,
             results |-> [k \in 1..Len(page_results) |->
                            [page_results[k] EXCEPT !.contexts = Slice(@, 0, CONTEXT_CAP)]],
             total |-> Len(results),
             totalMatches |-> SumSeq([k \in 1..Len(results) |-> results[k].match_count]),
             page |-> page, perPage |-> per_page]
        Paginate(results, start) ==
            Response(results, Slice(results, start, start + per_page))
        \* reverse=True keeps equal keys in their original order, so it is the
        \* stable ascending sort on the negated key; (dataset, filename) is
        \* ordered lexicographically
        Sorted(filtered) ==
            Paginate(IF sort = "relevance"
                     THEN StableSort(filtered, [k \in 1..Len(filtered) |->
                                                   0 - filtered[k].match_count])
                     ELSE IF sort = "filename"
                     THEN StableSort(filtered, [k \in 1..Len(filtered) |->
                                                   NameKey(filtered[k].filename)])
                     ELSE IF sort = "dataset"
                     THEN StableSort(filtered, [k \in 1..Len(filtered) |->
                                                   filtered[k].dataset * 27
                                                   + NameKey(filtered[k].filename)])
                     ELSE filtered,
                     PageStart(page, per_page))
        Found(found) ==
            IF found.type = "raise" THEN [status |-> 500]
            ELSE Sorted(SelectSeq(SelectSeq(SelectSeq(found.items, F1), F2), F3))
    IN  IF ~searcher_loaded THEN [status |-> 503]
        ELSE Found(_parse_and_search(PDFSearcher(docs), q).value)

(***************************************************************************)
(* build_index                                                             *)
(***************************************************************************)
\* 10000 in the source; scaled down so that a batch fills within MaxDocs
\* records and a partial batch is left for the final flush
BATCH_SIZE == 2
REQUIRED == {"dataset", "filename", "filepath", "pages"}

EmptyDb == [exists |-> FALSE, tables |-> {}, documents |-> <<>>,
            documents_fts |-> <<>>, indexes |-> {}]

\* the executescript of build_index: DROP TABLE IF EXISTS on both tables
\* (which drops the indexes of documents), then both tables created empty
ExecuteScriptNoDrop(db) ==
    [db EXCEPT !.exists = TRUE, !.tables = {"documents", "documents_fts"}]
ExecuteScript(db) ==
    [exists |-> TRUE, tables |-> {"documents", "documents_fts"},
     documents |-> <<>>, documents_fts |-> <<>>, indexes |-> {}]

\* the tuple appended to doc_rows for the record at 0-based index i; the
\* page_offsets column is NULL (the empty text) when absent or empty
DocRowZeroBased(i, doc) ==
    LET offs == IF "page_offsets" \in DOMAIN doc THEN doc.page_offsets ELSE <<>>
    IN  [id |-> i, dataset |-> doc.dataset, filename |-> doc.filename,
         filepath |-> doc.filepath, pages |-> doc.pages,
         page_offsets |-> IF offs # <<>> THEN json_dumps(offs) ELSE <<>>]
DocRow(i, doc) ==
    LET doc_id == i + 1
        offs   == IF "page_offsets" \in DOMAIN doc THEN doc.page_offsets ELSE <<>>
    IN  [id |-> doc_id, dataset |-> doc.dataset, filename |-> doc.filename,
         filepath |-> doc.filepath, pages |-> doc.pages,
         page_offsets |-> IF offs # <<>> THEN json_dumps(offs) ELSE <<>>]

\* the tuple appended to fts_rows
FtsRowZeroBased(i, doc) ==
    [rowid |-> i, text |-> IF "text" \in DOMAIN doc THEN doc.text ELSE <<>>]
FtsRow(i, doc) ==
    LET doc_id == i + 1
    IN  [rowid |-> doc_id, text |-> IF "text" \in DOMAIN doc THEN doc.text ELSE <<>>]

\* a JSON value that is an object (a dict once loaded)
IsDict(doc) == "py_type" \notin DOMAIN doc

\* NOT NULL on documents.dataset and documents.pages (filename and filepath
\* are strings in every input considered)
NotNull(row) == row.dataset # None /\ row.pages # None

\* executemany of both INSERT statements, then commit: the committed
\* content afterwards, or IntegrityError (nothing of the batch is committed)
InsertBatchAllButLast(db, doc_rows, fts_rows) ==
    [db EXCEPT !.documents = @ \o SubSeq(doc_rows, 1, Len(doc_rows) - 1),
               !.documents_fts = @ \o SubSeq(fts_rows, 1, Len(fts_rows) - 1)]
InsertBatch(db, doc_rows, fts_rows) ==
    IF \/ \E k \in 1..Len(doc_rows) : ~NotNull(doc_rows[k])
       \/ \E k \in 1..Len(doc_rows), j \in 1..Len(db.documents) :
             doc_rows[k].id = db.documents[j].id
       \/ \E k \in 1..Len(fts_rows), j \in 1..Len(db.documents_fts) :
             fts_rows[k].rowid = db.documents_fts[j].rowid
    THEN Raise("IntegrityError")
    ELSE [db EXCEPT !.documents = @ \o doc_rows, !.documents_fts = @ \o fts_rows]

\* build_index is not running
IdleBuild == [pc |-> "idle", i |-> 0, total |-> 0, errors |-> 0,
              doc_rows |-> <<>>, fts_rows |-> <<>>, indexed |-> 0]

(***************************************************************************)
(* Inputs: the PDFs on disk, the terms and the queries                     *)
(***************************************************************************)
MaxDocs == 3
MaxDistance == 5
MaxPage == 3
MaxPerPage == 2

w_island  == <<"i", "s", "l", "a", "n", "d">>
w_islands == <<"i", "s", "l", "a", "n", "d", "s">>
w_isl     == <<"i", "s", "l">>
w_Maxwell == <<"M", "a", "x", "w", "e", "l", "l">>
w_other   == <<"o", "t", "h", "e", "r">>
w_a == <<"a">>
w_b == <<"b">>
w_c == <<"c">>
w_d == <<"d">>
w_x == <<"x">>
w_AND == <<"A", "N", "D">>
w_and == <<"a", "n", "d">>
w_OR  == <<"O", "R">>
w_NOT == <<"N", "O", "T">>
w_not == <<"n", "o", "t">>
w_NEAR(n) == <<"N", "E", "A", "R", "/">> \o IntToDigits(n)
Quoted(s) == <<"\"">> \o s \o <<"\"">>
Text(words) == JoinWith(words, <<" ">>)

\* the PDFs the extractor may find, in the order it visits them
PdfPool ==
    << [name |-> "A", dataset |-> 1, statOk |-> TRUE, infoOk |-> TRUE, textOk |-> TRUE,
        pageTexts |-> <<Text(<<w_island, w_x, w_island>>)>>],
       [name |-> "B", dataset |-> 1, statOk |-> TRUE, infoOk |-> TRUE, textOk |-> TRUE,
        pageTexts |-> <<Text(<<w_island, w_a, w_b, w_c, w_d, w_Maxwell>>)>>],
       [name |-> "C", dataset |-> 1, statOk |-> TRUE, infoOk |-> TRUE, textOk |-> TRUE,
        pageTexts |-> <<w_other>>],
       [name |-> "D", dataset |-> 2, statOk |-> TRUE, infoOk |-> TRUE, textOk |-> TRUE,
        pageTexts |-> <<Text(<<w_x, w_island>>), w_Maxwell>>],
       [name |-> "E", dataset |-> 2, statOk |-> TRUE, infoOk |-> FALSE, textOk |-> TRUE,
        pageTexts |-> <<w_x>>],
       [name |-> "F", dataset |-> 2, statOk |-> FALSE, infoOk |-> TRUE, textOk |-> TRUE,
        pageTexts |-> <<w_island>>] >>

\* the members of the index set S, in increasing order
RECURSIVE Ordered(_)
Ordered(S) ==
    IF S = {} THEN <<>>
    ELSE LET m == CHOOSE x \in S : \A y \in S : x <= y
         IN  <<m>> \o Ordered(S \ {m})
PdfSets == {S \in SUBSET (1..Len(PdfPool)) : Cardinality(S) \in 1..MaxDocs}
PdfsOf(S) == LET o == Ordered(S) IN [k \in 1..Len(o) |-> PdfPool[o[k]]]
\* a document in which three occurrences of island are followed by more
\* than PAIR_LIMIT / 3 occurrences of x
Repeat(w, n) == [k \in 1..(n * Len(w)) |-> w[((k - 1) % Len(w)) + 1]]
DensePdf ==
    [name |-> "G", dataset |-> 1, statOk |-> TRUE, infoOk |-> TRUE, textOk |-> TRUE,
     pageTexts |-> <<Repeat(w_island, 3) \o Repeat(w_x, (PAIR_LIMIT \div 3) + 2)>>]
Corpora ==
    {create_search_index(process_all_pdfs(PdfsOf(S))) : S \in PdfSets}
    \cup {create_search_index(process_all_pdfs(<<DensePdf>>))}

Terms == {w_island, w_Maxwell, w_x, w_isl, Text(<<w_a, w_b>>)}
NearTerms == {w_island, w_Maxwell, w_x}

\* query words: terms, quoted phrases and operators in either letter case
QueryTerms == {w_island, w_Maxwell, w_x}
QueryPhrases == {Quoted(w_island), Quoted(Text(<<w_island, w_NOT, w_x>>)),
                 Quoted(Text(<<w_x, w_AND, w_island>>))}
QueryOps == {w_AND, w_OR, w_NOT, w_not, w_NEAR(5), w_NEAR(3)}
Separators == {<<" ">>, <<"\t">>}

\* word lists: t | t op t | t op t op t | t t NEAR/n t NOT t
WordLists ==
    {<<t>> : t \in QueryTerms \cup QueryPhrases \cup {Placeholder(0)}}
    \cup {<<t1, op, t2>> :
            t1 \in QueryTerms \cup QueryPhrases, op \in QueryOps, t2 \in QueryTerms}
    \cup {<<t1, op1, t2, op2, t3>> :
            t1 \in {w_island}, op1 \in QueryOps, t2 \in QueryTerms,
            op2 \in {w_AND, w_OR, w_NOT, w_NEAR(5)}, t3 \in {w_Maxwell, w_x}}
    \cup {<<t0, t1, w_NEAR(n), t2, w_NOT, t3>> :
            t0 \in {w_x}, t1 \in {w_island}, n \in {MaxDistance},
            t2 \in {w_Maxwell}, t3 \in QueryTerms}
Queries == {JoinWith(ws, sep) : ws \in WordLists, sep \in Separators}
ApiQueries == {Text(<<w_island, w_OR, w_x>>), Text(<<w_x, w_NOT, w_Maxwell>>),
               Placeholder(0)}
Datasets == {None, 1}
MinPages == {0, 2}
MaxPages == {None, 1}
Sorts == {"relevance", "filename", "dataset"}

(***************************************************************************)
(* The corpus file lookup of build_index.main, PDFSearcher() and the       *)
(* server's lifespan                                                       *)
(***************************************************************************)
\* the candidate locations; the commands are run from the project root,
\* where Path(name) and PROJECT_ROOT / name are the same file
DataSearchIndex == "data/epstein_pdfs_search_index.json"
DataFull        == "data/epstein_pdfs_full.json"
RootSearchIndex == "epstein_pdfs_search_index.json"
RootFull        == "epstein_pdfs_full.json"
candidates == <<DataSearchIndex, DataFull, RootSearchIndex, RootFull>>
\* json_path is None: no candidate exists
NoFile == "None"

\* the first of order that is present, or NoFile
FirstPresent(order, present) ==
    LET found == {k \in 1..Len(order) : order[k] \in present}
    IN  IF found = {} THEN NoFile
        ELSE order[CHOOSE k \in found : \A j \in found : k <= j]

\* a lookup that tries the full artifact of a directory before its search
\* index
FindFullFirst(present) ==
    FirstPresent(<<DataFull, DataSearchIndex, RootFull, RootSearchIndex>>, present)
\* for candidate in candidates: if candidate.exists(): return candidate
find_json_file(present) == FirstPresent(candidates, present)

\* the early exit of main that forgets the index file
MainSkipsNever(db_exists, force) == FALSE
\* SEARCH_DB.exists() and not args.force
main_skips(db_exists, force) == db_exists /\ ~force

\* no command was run yet
NoRun == [n |-> 0, cmd |-> "none", force |-> FALSE, json_file |-> NoFile,
          exit |-> None]

(***************************************************************************)
(* State                                                                   *)
(***************************************************************************)
VARIABLES
    data,      \* PDFSearcher.data: the corpus loaded at startup
    loaded,    \* the server's searcher is not None
    rq,        \* the request being answered and its result, or idle
    json,      \* the corpus file read by build_index
    db,        \* the committed content of the index file
    build,     \* build_index: its position and locals
    hist,      \* builds started and completed, the database the first one left
    files,     \* the candidate corpus files that exist
    run,       \* the last command run: the file its lookup chose, its exit status
    mem,       \* the objects of the search requests in progress, by thread
    cls,       \* the classifier: classify_dataset, its pool and its output file
    lim        \* the RateLimiter, the clock and the threads in acquire

vars == <<data, loaded, rq, json, db, build, hist, files, run, mem, cls, lim>>
Idle == [op |-> "idle"]
NoHist == [builds |-> 0, completed |-> 0, first |-> EmptyDb]
\* no search thread, no classifier run, no rate limiter
NoMem == [pc |-> "none"]
NoCls == [pc |-> "none"]
NoLim == [pc |-> "none"]

(***************************************************************************)
(* The in-memory search service                                            *)
(***************************************************************************)
Init ==
    /\ \/ data \in Corpora /\ loaded = TRUE /\ files = {DataSearchIndex}
       \/ data = <<>> /\ loaded = FALSE /\ files = {}
    /\ run = NoRun
    /\ mem = NoMem /\ cls = NoCls /\ lim = NoLim
    /\ rq = Idle
    /\ json = <<>>
    /\ db = EmptyDb
    /\ build = IdleBuild
    /\ hist = NoHist

Search(query) ==
    /\ loaded /\ rq = Idle
    /\ rq' = [op |-> "search", query |-> query, results |-> search(data, query)]
    /\ UNCHANGED <<data, loaded, json, db, build, hist, files, run, mem, cls, lim>>

SearchMultiple(queries, operator) ==
    /\ loaded /\ rq = Idle
    /\ rq' = [op |-> "search_multiple", queries |-> queries, operator |-> operator,
              results |-> search_multiple(data, queries, operator)]
    /\ UNCHANGED <<data, loaded, json, db, build, hist, files, run, mem, cls, lim>>

SearchProximity(term1, term2, max_distance) ==
    /\ loaded /\ rq = Idle
    /\ rq' = [op |-> "search_proximity", term1 |-> term1, term2 |-> term2,
              max_distance |-> max_distance,
              results |-> search_proximity(data, term1, term2, max_distance)]
    /\ UNCHANGED <<data, loaded, json, db, build, hist, files, run, mem, cls, lim>>

ParseAndSearch(query) ==
    /\ loaded /\ rq = Idle
    /\ rq' = [op |-> "parse_and_search", backend |-> "pdf", query |-> query,
              ret |-> _parse_and_search(PDFSearcher(data), query)]
    /\ UNCHANGED <<data, loaded, json, db, build, hist, files, run, mem, cls, lim>>

SearchApi(q, page, per_page, dataset, min_pages, max_pages, sort) ==
    /\ rq = Idle
    /\ rq' = [op |-> "search_api", q |-> q, page |-> page, per_page |-> per_page,
              dataset |-> dataset, min_pages |-> min_pages, max_pages |-> max_pages,
              sort |-> sort,
              response |-> search_api(loaded, data, q, page, per_page, dataset,
                                      min_pages, max_pages, sort)]
    /\ UNCHANGED <<data, loaded, json, db, build, hist, files, run, mem, cls, lim>>

\* the result is handed to the caller
Respond ==
    /\ rq # Idle
    /\ rq' = Idle
    /\ UNCHANGED <<data, loaded, json, db, build, hist, files, run, mem, cls, lim>>

Next ==
    \/ \E t \in Terms : Search(t)
    \/ \E t1, t2 \in Terms, operator \in {w_AND, w_OR} :
          SearchMultiple(<<t1, t2>>, operator)
    \/ \E t1, t2 \in NearTerms, n \in 0..MaxDistance : SearchProximity(t1, t2, n)
    \/ \E q \in Queries : ParseAndSearch(q)
    \/ \E q \in ApiQueries, page \in 1..MaxPage, per_page \in 1..MaxPerPage,
          dataset \in Datasets, min_pages \in MinPages, max_pages \in MaxPages,
          sort \in Sorts :
          SearchApi(q, page, per_page, dataset, min_pages, max_pages, sort)
    \/ Respond

Spec == Init /\ [][Next]_vars

(***************************************************************************)
(* Properties of the in-memory service                                     *)
(***************************************************************************)
IsAndRequest == rq.op = "search_multiple" /\ upper(rq.operator) = OpAND

\* C1: search_multiple([t1, t2], "AND") returns only records of search(t1)
\* whose filename is also in search(t2), and its filenames are exactly those
\* present in both single-term results
AndIsIntersection ==
    IsAndRequest =>
        LET r1 == search(data, rq.queries[1])
            r2 == search(data, rq.queries[2])
        IN  /\ \A k \in 1..Len(rq.results) :
                  /\ rq.results[k] \in Range(r1)
                  /\ rq.results[k].filename \in Filenames(r2)
            /\ Filenames(rq.results) = Filenames(r1) \cap Filenames(r2)

\* an AND request that kept some records of search(t1) and dropped others
AndFiltered ==
    /\ IsAndRequest
    /\ rq.results # <<>>
    /\ Len(rq.results) < Len(search(data, rq.queries[1]))

\* positions where term occurs in text, overlapping ones included
Occurrences(term, text) ==
    {i \in 0..(Len(text) - Len(term)) : MatchAt(term, text, i, TRUE)}
\* number of words in text[a:b]: the characters that begin a run of
\* non-whitespace
WordsBetween(text, a, b) ==
    Cardinality({i \in (a + 1)..b :
                    text[i] \notin WS /\ (i = a + 1 \/ text[i - 1] \in WS)})
\* the least number of words between an occurrence of term1 and one of
\* term2 (0 when they touch or overlap); -1 when either term is absent
MinimalGap(text, term1, term2) ==
    LET gaps == {IF Min(s1 + Len(term1), s2 + Len(term2)) >= Max(s1, s2) THEN 0
                 ELSE WordsBetween(text, Min(s1 + Len(term1), s2 + Len(term2)),
                                   Max(s1, s2)) :
                    s1 \in Occurrences(term1, text), s2 \in Occurrences(term2, text)}
    IN  IF gaps = {} THEN -1 ELSE CHOOSE g \in gaps : \A h \in gaps : g <= h
DocNamed(f) == CHOOSE k \in 1..Len(data) : data[k].filename = f

\* C2: search_proximity(t1, t2, N) returns no document whose minimal word
\* gap between an occurrence of t1 and one of t2 exceeds N
ProximityWithinBound ==
    rq.op = "search_proximity" =>
        \A k \in 1..Len(rq.results) :
            LET gap == MinimalGap(data[DocNamed(rq.results[k].filename)].text,
                                  rq.term1, rq.term2)
            IN  gap >= 0 /\ gap <= rq.max_distance

\* a proximity hit whose minimal gap is exactly the bound, terms distinct
ProximityAtBound ==
    /\ rq.op = "search_proximity"
    /\ rq.term1 # rq.term2
    /\ rq.max_distance >= 1
    /\ \E k \in 1..Len(rq.results) :
          MinimalGap(data[DocNamed(rq.results[k].filename)].text,
                     rq.term1, rq.term2) = rq.max_distance

IsParsed == rq.op = "parse_and_search" /\ rq.ret.value.type = "list"

\* C3: with one or more NOT terms, no hit of the final result of
\* _parse_and_search has a filename in the single-term result of an
\* exclusion term, whatever other clauses the query has
NotExcludesFromFinalResult ==
    (IsParsed /\ rq.backend = "pdf" /\ rq.ret.not_terms # <<>>) =>
        \A k \in 1..Len(rq.ret.value.items), n \in 1..Len(rq.ret.not_terms) :
            rq.ret.value.items[k].filename
                \notin Filenames(search(data, rq.ret.not_terms[n]))

\* C8: the page attached to a match of the in-memory backend lies in
\* 1..pages of its document
PageWithinPageCount ==
    rq.op = "search" =>
        \A k \in 1..Len(rq.results) :
            \A c \in 1..Len(rq.results[k].contexts) :
                "page" \in DOMAIN rq.results[k].contexts[c] =>
                    /\ rq.results[k].contexts[c].page >= 1
                    /\ rq.results[k].contexts[c].page <= rq.results[k].pages

\* C9: every record of create_search_index has page_offsets[0] = 0, a
\* non-decreasing page_offsets with one entry per form-feed separated page,
\* each offset being the previous one plus the previous page's length plus
\* one
PageOffsetsWellFormed ==
    \A d \in 1..Len(data) :
        LET po   == data[d].page_offsets
            text == data[d].text
        IN  /\ po[1] = 0
            /\ \A k \in 2..Len(po) : po[k - 1] <= po[k]
            /\ Len(po) = 1 + Cardinality({p \in 1..Len(text) : text[p] = "\f"})
            /\ \A k \in 2..Len(po) :
                  /\ text[po[k]] = "\f"
                  /\ \A p \in (po[k - 1] + 1)..(po[k] - 1) : text[p] # "\f"

\* a loaded document of several pages
MultiPageDocument ==
    \E d \in 1..Len(data) : Len(data[d].page_offsets) >= 3 /\ data[d].pages >= 2

IsApiPage == rq.op = "search_api" /\ rq.response.status = 200

\* C10: the response holds exactly ranks (k-1)*n+1 .. k*n of the filtered
\* and sorted list, and total / totalMatches are the size and the summed
\* match_count of the whole filtered list whatever the page
PaginationIsSlice ==
    IsApiPage =>
        LET full  == rq.response.sorted
            res   == rq.response.results
            first == (rq.page - 1) * rq.per_page
            found == _parse_and_search(PDFSearcher(data), rq.q).value.items
            pass  == {k \in 1..Len(found) :
                        /\ (rq.dataset # None => found[k].dataset = rq.dataset)
                        /\ found[k].pages >= rq.min_pages
                        /\ (rq.max_pages # None => found[k].pages <= rq.max_pages)}
        IN  /\ Len(res) = Max(0, Min(rq.per_page, Len(full) - first))
            /\ \A i \in 1..Len(res) :
                  /\ res[i].filename = full[first + i].filename
                  /\ res[i].match_count = full[first + i].match_count
                  /\ res[i].dataset = full[first + i].dataset
                  /\ res[i].pages = full[first + i].pages
            /\ rq.response.total = Cardinality(pass)
            /\ rq.response.total = Len(full)
            /\ rq.response.totalMatches =
                  SumSeq([k \in 1..Len(full) |-> full[k].match_count])

\* page 2 with per_page 1 over a 3-hit result
SecondOfThree ==
    /\ IsApiPage
    /\ rq.page = 2 /\ rq.per_page = 1
    /\ rq.response.total = 3
    /\ Len(rq.response.results) = 1

\* the corpus of the three documents A ("island" twice), B ("island" and
\* "Maxwell" four words apart) and C (neither)
Scenario == create_search_index(process_all_pdfs(PdfsOf({1, 2, 3})))

IsPdfParse == rq.op = "parse_and_search" /\ rq.backend = "pdf"
AsksOfScenario(query) == IsPdfParse /\ data = Scenario /\ rq.query = query

\* the matches a scan from the left finds among the occurrences occ of a
\* term of length len: the leftmost one at or after from, then those after it
RECURSIVE CountMatches(_, _, _)
CountMatches(occ, from, len) ==
    LET later == {i \in occ : i >= from}
        next  == CHOOSE i \in later : \A j \in later : i <= j
    IN  IF later = {} THEN 0 ELSE 1 + CountMatches(occ, next + Max(1, len), len)

\* C11: search(t) returns one hit for each document holding a match of t and
\* none for any other document, match_count is the number of matches and
\* there is one context per match; in the scenario the phrase "island"
\* returns A and B with match_counts 2 and 1
SearchReturnsMatchingDocuments ==
    /\ rq.op = "search" =>
          /\ Filenames(rq.results) =
                {data[d].filename : d \in {e \in 1..Len(data) :
                                            Occurrences(rq.query, data[e].text) # {}}}
          /\ Len(rq.results) = Cardinality(Filenames(rq.results))
          /\ \A k \in 1..Len(rq.results) :
                /\ rq.results[k].match_count =
                      CountMatches(Occurrences(rq.query,
                                      data[DocNamed(rq.results[k].filename)].text),
                                   0, Len(rq.query))
                /\ Len(rq.results[k].contexts) = rq.results[k].match_count
    /\ AsksOfScenario(Quoted(w_island)) =>
          /\ rq.ret.value.type = "list"
          /\ Len(rq.ret.value.items) = 2
          /\ rq.ret.value.items[1].filename = "A"
          /\ rq.ret.value.items[1].match_count = 2
          /\ rq.ret.value.items[2].filename = "B"
          /\ rq.ret.value.items[2].match_count = 1

\* the search for island in the scenario: two matches in A, one in B, C left out
IslandInScenario ==
    /\ rq.op = "search" /\ data = Scenario /\ rq.query = w_island
    /\ Len(rq.results) = 2
    /\ rq.results[1].match_count = 2
    /\ Len(rq.results[1].contexts) = 2

\* C12 as stated: in the scenario, island AND Maxwell returns no hit
ScenarioAndReturnsNothing ==
    AsksOfScenario(Text(<<w_island, w_AND, w_Maxwell>>)) =>
        rq.ret.value = PyList(<<>>)

\* C12 amended: in the scenario, island AND Maxwell returns exactly one hit,
\* document B, the only document holding both terms, with the match_count
\* of its one match of island
ScenarioAndReturnsB ==
    AsksOfScenario(Text(<<w_island, w_AND, w_Maxwell>>)) =>
        /\ rq.ret.value.type = "list"
        /\ Len(rq.ret.value.items) = 1
        /\ rq.ret.value.items[1].filename = "B"
        /\ rq.ret.value.items[1].match_count = 1
        /\ rq.ret.operator = OpAND
        /\ rq.ret.terms = <<w_island, w_Maxwell>>

\* island AND Maxwell was asked of the scenario and answered with a hit
ScenarioAndAnswered ==
    /\ AsksOfScenario(Text(<<w_island, w_AND, w_Maxwell>>))
    /\ rq.ret.value.type = "list"
    /\ rq.ret.value.items # <<>>

\* the text of a term as the parser hands it on: a quoted phrase without
\* its quotes
Unquoted(t) == IF Head(t) = "\"" THEN SubSeq(t, 2, Len(t) - 1) ELSE t
NearDistances == {3, 5}

\* C13: a query that is only t1 NEAR/N t2 has an empty primary result, calls
\* no search but search_proximity, and returns exactly the hits of
\* search_proximity(t1, t2, N); in the scenario island NEAR/5 Maxwell returns
\* exactly one hit, document B
NearOnlyReturnsProximityHits ==
    /\ \A t1 \in QueryTerms \cup QueryPhrases, t2 \in QueryTerms,
          n \in NearDistances, sep \in Separators :
          (IsPdfParse /\ rq.query = JoinWith(<<t1, w_NEAR(n), t2>>, sep)) =>
              /\ rq.ret.operator = <<>>
              /\ rq.ret.terms = << <<>> >>
              /\ rq.ret.not_terms = <<>>
              /\ rq.ret.calls = <<[method |-> "search_proximity",
                                   args |-> <<Unquoted(t1), t2>>]>>
              /\ rq.ret.value = PyList(search_proximity(data, Unquoted(t1), t2, n))
    /\ AsksOfScenario(Text(<<w_island, w_NEAR(5), w_Maxwell>>)) =>
          /\ Len(rq.ret.value.items) = 1
          /\ rq.ret.value.items[1].filename = "B"

\* island NEAR/5 Maxwell was asked of the scenario and B came back
ScenarioNearAnswered ==
    /\ AsksOfScenario(Text(<<w_island, w_NEAR(5), w_Maxwell>>))
    /\ Filenames(rq.ret.value.items) = {"B"}

\* the words of the working text once the phrases are placeholders and the
\* NEAR pairs are removed
WorkingWords(query) ==
    split(Concat(NearScan(ExtractPhrases(query, 0, <<>>, <<>>, FALSE).working,
                          0, <<>>, <<>>, <<>>).pieces))
\* the positions of the whole word op, in any letter case
WordsAt(words, op) == {k \in 1..Len(words) : upper(words[k]) = op}
FirstOf(S) == CHOOSE k \in S : \A j \in S : k <= j

\* C14: when NOT occurs as a whole word, in any letter case and between any
\* whitespace, every term after the first NOT is an exclusion term and only
\* the words before the first NOT reach the AND/OR handling
NotSplitsAtFirstNot ==
    IsPdfParse =>
        LET words == WorkingWords(rq.query)
            nots  == WordsAt(words, OpNOT)
        IN  nots # {} =>
               /\ \A k \in (FirstOf(nots) + 1)..Len(words) :
                     k \notin nots =>
                        restore(words[k], rq.ret.phrases) \in Range(rq.ret.not_terms)
               /\ rq.ret.phrases = <<>> =>
                     \A t \in Range(rq.ret.terms) : \A w \in Range(split(t)) :
                        \E k \in 1..(FirstOf(nots) - 1) : words[k] = w

\* the groups of words between the occurrences of the whole word op
RECURSIVE WordGroups(_, _, _)
WordGroups(words, group, op) ==
    IF words = <<>> THEN <<group>>
    ELSE IF upper(Head(words)) = op
         THEN <<group>> \o WordGroups(Tail(words), <<>>, op)
         ELSE WordGroups(Tail(words), Append(group, Head(words)), op)

\* the words before the first NOT hold AND and OR, each between two words
HasAndWithOr(seg) ==
    /\ WordsAt(seg, OpAND) \cap 2..(Len(seg) - 1) # {}
    /\ WordsAt(seg, OpOR) \cap 2..(Len(seg) - 1) # {}
SegmentBeforeNot(words) ==
    IF WordsAt(words, OpNOT) = {} THEN words
    ELSE SubSeq(words, 1, FirstOf(WordsAt(words, OpNOT)) - 1)

\* C15: when the segment before NOT holds both AND and OR, it is split at
\* AND only, the pieces (a piece such as b OR c being one term) go to
\* search_multiple with AND, and OR is applied nowhere
AndTakesPrecedenceOverOr ==
    \A sep \in Separators :
        (/\ IsPdfParse
         /\ Range(rq.query) \cap (WS \ Range(sep)) = {}
         /\ HasAndWithOr(SegmentBeforeNot(WorkingWords(rq.query)))) =>
            LET groups == WordGroups(SegmentBeforeNot(WorkingWords(rq.query)),
                                     <<>>, OpAND)
                terms  == [k \in 1..Len(groups) |->
                             restore(JoinWith(groups[k], sep), rq.ret.phrases)]
            IN  /\ rq.ret.operator = OpAND
                /\ rq.ret.terms = terms
                /\ \E k \in 1..Len(terms) : WordsAt(split(terms[k]), OpOR) # {}
                /\ rq.ret.calls[1] = [method |-> "search_multiple", args |-> terms]
                /\ \A c \in 2..Len(rq.ret.calls) :
                      rq.ret.calls[c].method # "search_multiple"
                /\ (rq.ret.not_terms = <<>> /\ rq.ret.proximity_pairs = <<>>) =>
                      rq.ret.value = PyList(search_multiple(data, terms, OpAND))

\* island OR x AND Maxwell on a corpus where the OR reading would return
\* documents and the AND reading returns none
MixedAndOrAsked ==
    /\ IsPdfParse
    /\ rq.query = Text(<<w_island, w_OR, w_x, w_AND, w_Maxwell>>)
    /\ rq.ret.terms = <<Text(<<w_island, w_OR, w_x>>), w_Maxwell>>
    /\ rq.ret.value = PyList(<<>>)
    /\ search(data, w_island) # <<>>

\* C24: no proximity hit carries more than PAIR_LIMIT pairs: match_count
\* and the number of contexts are at most 50
ProximityPairsCapped ==
    rq.op = "search_proximity" =>
        \A k \in 1..Len(rq.results) :
            /\ rq.results[k].match_count <= PAIR_LIMIT
            /\ Len(rq.results[k].contexts) <= PAIR_LIMIT

IsOrRequest == rq.op = "search_multiple" /\ upper(rq.operator) # OpAND

\* the records of filename f in the single-term results of the terms, in
\* term order
RECURSIVE HitsNamed(_, _, _)
HitsNamed(docs, terms, f) ==
    LET Named(r) == r.filename = f
    IN  IF terms = <<>> THEN <<>>
        ELSE SelectSeq(search(docs, Head(terms)), Named)
             \o HitsNamed(docs, Tail(terms), f)

\* C25: search_multiple(terms, "OR") returns one hit per filename found by
\* at least one term and no other; its match_count is the sum of the
\* match_counts and its contexts the concatenation of the contexts of that
\* filename over the terms' results, in term order
OrIsMergedUnion ==
    IsOrRequest =>
        /\ Filenames(rq.results) =
              UNION {Filenames(search(data, rq.queries[t])) : t \in 1..Len(rq.queries)}
        /\ Len(rq.results) = Cardinality(Filenames(rq.results))
        /\ \A k \in 1..Len(rq.results) :
              LET found == HitsNamed(data, rq.queries, rq.results[k].filename)
              IN  /\ rq.results[k].match_count =
                        SumSeq([j \in 1..Len(found) |-> found[j].match_count])
                  /\ rq.results[k].contexts =
                        Concat([j \in 1..Len(found) |-> found[j].contexts])

\* an OR of two different terms: one document found by both, one by the
\* first only
OrMergedAndAdded ==
    /\ IsOrRequest
    /\ rq.queries[1] # rq.queries[2]
    /\ \E k \in 1..Len(rq.results) :
          /\ rq.results[k].filename \in Filenames(search(data, rq.queries[1]))
          /\ rq.results[k].filename \in Filenames(search(data, rq.queries[2]))
    /\ \E k \in 1..Len(rq.results) :
          rq.results[k].filename \notin Filenames(search(data, rq.queries[2]))

\* the hit records a request of the in-memory backend returned
ReturnedHits ==
    IF rq.op \in {"search", "search_multiple", "search_proximity"} THEN rq.results
    ELSE IF IsPdfParse /\ rq.ret.value.type = "list" THEN rq.ret.value.items
    ELSE <<>>

\* C30: every hit of the in-memory backend and of _parse_and_search over it
\* has match_count = number of contexts >= 1 and a filename no other hit of
\* the result has
HitsWellFormed ==
    /\ \A k \in 1..Len(ReturnedHits) :
          /\ ReturnedHits[k].match_count = Len(ReturnedHits[k].contexts)
          /\ ReturnedHits[k].match_count >= 1
    /\ Len(ReturnedHits) = Cardinality(Filenames(ReturnedHits))

\* a query whose proximity hit was merged into a record of the primary
\* result
ProximityMergedIntoPrimary ==
    /\ IsPdfParse /\ rq.ret.value.type = "list"
    /\ rq.ret.proximity_pairs # <<>>
    /\ \E k \in 1..Len(rq.ret.value.items) :
          /\ rq.ret.value.items[k].filename \in
                Filenames(search(data, rq.ret.terms[1]))
          /\ rq.ret.value.items[k].match_count >
                SumSeq([j \in 1..Len(HitsNamed(data, rq.ret.terms,
                                               rq.ret.value.items[k].filename)) |->
                          HitsNamed(data, rq.ret.terms,
                                    rq.ret.value.items[k].filename)[j].match_count])

(***************************************************************************)
(* The index builder and the FTS5 search service                           *)
(***************************************************************************)
MaxBuilds == 2

w_query == w_island \o <<"?">>
\* a blank query, and an operator with a character FTS5 rejects
w_blank == <<" ">>
w_NOTquery == w_NOT \o <<"?">>

\* the records of the corpus file: what the extractor writes for four PDFs,
\* with a record lacking "pages" after the first of them, then an entry that
\* is no object and a record whose "pages" is null
IndexPdfs ==
    << PdfPool[1], PdfPool[2], PdfPool[4],
       [name |-> "X", dataset |-> 2, statOk |-> TRUE, infoOk |-> TRUE, textOk |-> TRUE,
        pageTexts |-> <<Text(<<w_islands, w_other>>)>>] >>
IndexPool ==
    SubSeq(create_search_index(process_all_pdfs(IndexPdfs)), 1, 1)
    \o << [dataset |-> 1, filename |-> "K", filepath |-> "K", text |-> w_other] >>
    \o Tail(create_search_index(process_all_pdfs(IndexPdfs)))
    \o << [py_type |-> "str"],
          [dataset |-> 1, filename |-> "N", filepath |-> "N", pages |-> None,
           text |-> w_x] >>
JsonFiles ==
    {[k \in 1..Len(Ordered(S)) |-> IndexPool[Ordered(S)[k]]] :
        S \in {T \in SUBSET (1..Len(IndexPool)) : Cardinality(T) \in 1..MaxDocs}}

SqlTerms ==
    {w_island, w_islands, w_isl, w_Maxwell, w_other, w_NOT, w_query, w_blank,
     w_NOTquery}
SqlQueries ==
    {w_island, Quoted(Text(<<w_island, w_AND, w_Maxwell>>)),
     Quoted(Text(<<w_island, w_x>>)),
     Quoted(Text(<<w_island, w_NOT, w_x>>)),
     Text(<<w_island, w_AND, w_Maxwell>>), Text(<<w_island, w_OR, w_other>>),
     Text(<<w_island, w_NOT, w_Maxwell>>),
     Text(<<w_island, w_NEAR(MaxDistance), w_Maxwell>>),
     Placeholder(0), <<>>}
\* the page of a limited search follows the bm25 order, which the model does
\* not compute: searches are made without a limit
Limits == {None}
Offsets == {0}

InitIndex ==
    /\ data = <<>> /\ loaded = FALSE
    /\ rq = Idle
    /\ json \in JsonFiles
    /\ files = {DataSearchIndex}
    /\ run = NoRun
    /\ mem = NoMem /\ cls = NoCls /\ lim = NoLim
    /\ db = EmptyDb
    /\ build = IdleBuild
    /\ hist = NoHist

\* build_index up to the loop: the corpus is loaded, the database opened
\* (created when absent) and the script run
StartBuild ==
    /\ build.pc \in {"idle", "done", "aborted"}
    /\ rq = Idle
    /\ hist.builds < MaxBuilds
    /\ db' = ExecuteScript(db)
    /\ build' = [IdleBuild EXCEPT !.pc = "loop", !.total = Len(json)]
    /\ hist' = [hist EXCEPT !.builds = @ + 1]
    /\ UNCHANGED <<data, loaded, rq, json, files, run, mem, cls, lim>>

\* one iteration of the loop for a record with every required key: the
\* rows are appended, and a full batch is inserted and committed
IndexDoc ==
    /\ build.pc = "loop" /\ build.i < build.total
    /\ LET doc      == json[build.i + 1]
           doc_rows == Append(build.doc_rows, DocRow(build.i, doc))
           fts_rows == Append(build.fts_rows, FtsRow(build.i, doc))
           inserted == InsertBatch(db, doc_rows, fts_rows)
       IN  /\ IsDict(doc) /\ REQUIRED \subseteq DOMAIN doc
           /\ IF Len(doc_rows) < BATCH_SIZE
              THEN /\ build' = [build EXCEPT !.i = @ + 1, !.doc_rows = doc_rows,
                                             !.fts_rows = fts_rows]
                   /\ db' = db
              ELSE IF "exc" \in DOMAIN inserted
              THEN /\ build' = [build EXCEPT !.pc = "aborted", !.doc_rows = doc_rows,
                                             !.fts_rows = fts_rows]
                   /\ db' = db
              ELSE /\ build' = [build EXCEPT !.i = @ + 1, !.doc_rows = <<>>,
                                             !.fts_rows = <<>>]
                   /\ db' = inserted
    /\ UNCHANGED <<data, loaded, rq, json, hist, files, run, mem, cls, lim>>

\* an iteration whose record lacks a required key: KeyError, counted,
\* logged with doc.get("filename", "?"), and the loop continues
SkipDoc ==
    /\ build.pc = "loop" /\ build.i < build.total
    /\ IsDict(json[build.i + 1])
    /\ ~(REQUIRED \subseteq DOMAIN json[build.i + 1])
    /\ build' = [build EXCEPT !.i = @ + 1, !.errors = @ + 1]
    /\ UNCHANGED <<data, loaded, rq, json, db, hist, files, run, mem, cls, lim>>

\* an iteration whose entry is no object: doc["dataset"] raises TypeError,
\* which is counted, and doc.get in the handler raises AttributeError, which
\* nothing catches
AbortOnEntry ==
    /\ build.pc = "loop" /\ build.i < build.total
    /\ ~IsDict(json[build.i + 1])
    /\ build' = [build EXCEPT !.pc = "aborted", !.errors = @ + 1]
    /\ UNCHANGED <<data, loaded, rq, json, db, hist, files, run, mem, cls, lim>>

\* the final batch
FinalBatch ==
    /\ build.pc = "loop" /\ build.i = build.total
    /\ LET inserted == InsertBatch(db, build.doc_rows, build.fts_rows)
       IN  IF build.doc_rows = <<>>
           THEN build' = [build EXCEPT !.pc = "indexes"] /\ db' = db
           ELSE IF "exc" \in DOMAIN inserted
           THEN build' = [build EXCEPT !.pc = "aborted"] /\ db' = db
           ELSE build' = [build EXCEPT !.pc = "indexes"] /\ db' = inserted
    /\ UNCHANGED <<data, loaded, rq, json, hist, files, run, mem, cls, lim>>

\* CREATE INDEX on dataset and on filename; an index of that name left in
\* the file makes the statement fail
CreateIndexes ==
    /\ build.pc = "indexes"
    /\ IF db.indexes = {}
       THEN /\ db' = [db EXCEPT !.indexes = {"idx_documents_dataset",
                                             "idx_documents_filename"}]
            /\ build' = [build EXCEPT !.pc = "optimize"]
       ELSE /\ db' = db
            /\ build' = [build EXCEPT !.pc = "aborted"]
    /\ UNCHANGED <<data, loaded, rq, json, hist, files, run, mem, cls, lim>>

\* the optimize pass (it leaves the content as it is), close, and the summary
Optimize ==
    /\ build.pc = "optimize"
    /\ build' = [build EXCEPT !.pc = "done", !.indexed = build.total - build.errors]
    /\ hist' = [hist EXCEPT !.completed = @ + 1,
                            !.first = IF hist.completed = 0 THEN db ELSE @]
    /\ UNCHANGED <<data, loaded, rq, json, db, files, run, mem, cls, lim>>

\* SQLiteSearcher.search on the index file the builder left
SqlSearch(query, dataset, limit, offset) ==
    /\ build.pc \in {"done", "aborted"} /\ db.exists
    /\ rq = Idle
    /\ rq' = [op |-> "sql_search", query |-> query, dataset |-> dataset,
              limit |-> limit, offset |-> offset,
              ret |-> SQLiteSearcher_search(db, query, dataset, limit, offset),
              executed |->
                  SQLiteSearcher_search_executed(db, query, dataset, limit, offset)]
    /\ UNCHANGED <<data, loaded, json, db, build, hist, files, run, mem, cls, lim>>

\* _parse_and_search with the SQLiteSearcher
SqlParseAndSearch(query) ==
    /\ build.pc \in {"done", "aborted"} /\ db.exists
    /\ rq = Idle
    /\ rq' = [op |-> "parse_and_search", backend |-> "sqlite", query |-> query,
              ret |-> _parse_and_search(SQLiteSearcher(db), query)]
    /\ UNCHANGED <<data, loaded, json, db, build, hist, files, run, mem, cls, lim>>

NextIndex ==
    \/ StartBuild
    \/ IndexDoc
    \/ SkipDoc
    \/ AbortOnEntry
    \/ FinalBatch
    \/ CreateIndexes
    \/ Optimize
    \/ \E t \in SqlTerms, dataset \in Datasets, limit \in Limits, offset \in Offsets :
          SqlSearch(t, dataset, limit, offset)
    \/ \E q \in SqlQueries : SqlParseAndSearch(q)
    \/ Respond

SpecIndex == InitIndex /\ [][NextIndex]_vars

(***************************************************************************)
(* Properties of the index builder and the FTS5 service                    *)
(***************************************************************************)
\* the hit records of what a backend call or _parse_and_search returned
HitsOf(value) ==
    IF value.type = "tuple" THEN value.items[1].items
    ELSE IF value.type = "list" THEN value.items
    ELSE <<>>

\* the records of the corpus file that build_index turns into rows
Indexed == {k \in 1..Len(json) : IsDict(json[k]) /\ REQUIRED \subseteq DOMAIN json[k]}
JsonNamed(f) == CHOOSE k \in Indexed : json[k].filename = f

\* a query that is one quoted phrase holding an operator word
IsOperatorPhrase ==
    /\ rq.op = "parse_and_search"
    /\ build.pc = "done"
    /\ Len(rq.ret.phrases) = 1
    /\ rq.query = Quoted(rq.ret.phrases[1])
    /\ \E w \in Range(split(rq.ret.phrases[1])) : upper(w) \in {OpAND, OpOR, OpNOT}

\* C4: a quoted phrase holding AND, OR or NOT does not split the query, adds
\* no exclusion term and no proximity pair, and reaches the matching as one
\* phrase: every document returned holds the words of the phrase next to
\* each other, in order
PhraseReachesMatcherIntact ==
    IsOperatorPhrase =>
        /\ rq.ret.operator = <<>>
        /\ rq.ret.not_terms = <<>>
        /\ rq.ret.proximity_pairs = <<>>
        /\ rq.ret.value.type # "raise"
        /\ \A k \in 1..Len(HitsOf(rq.ret.value)) :
              PhraseStarts(tokenize(json[JsonNamed(HitsOf(rq.ret.value)[k].filename)].text),
                           tokenize(rq.ret.phrases[1])) # {}

\* C5: with the FTS5 backend as with the in-memory one, _parse_and_search of
\* a query without placeholder text, on the index a complete build left,
\* completes and returns a list of hit records
ParseReturnsHitList ==
    (/\ rq.op = "parse_and_search"
     /\ build.pc = "done"
     /\ ~Contains(rq.query, <<"_", "_", "P", "H">>)) =>
        AllHits(rq.ret.value)

\* a plain search(term) on the index a complete build left
IsTermSearch ==
    /\ rq.op = "sql_search"
    /\ build.pc = "done"
    /\ rq.dataset = None /\ rq.limit = None /\ rq.offset = 0
    /\ rq.query # <<>>
    /\ Range(rq.query) \subseteq AlnumSet

\* exactly one hit, for the record json[k], with match_count >= 1 and a
\* total of 1
ReturnsOnly(k) ==
    /\ rq.ret.type = "tuple"
    /\ Len(HitsOf(rq.ret)) = 1
    /\ HitsOf(rq.ret)[1].filename = json[k].filename
    /\ HitsOf(rq.ret)[1].dataset = json[k].dataset
    /\ HitsOf(rq.ret)[1].pages = json[k].pages
    /\ HitsOf(rq.ret)[1].match_count >= 1
    /\ rq.ret.items[2].val = 1

\* the indexed records in whose text the term occurs as a word
WordIn(term) ==
    {k \in Indexed : "text" \in DOMAIN json[k]
                     /\ lower(term) \in Range(TokensFrom(json[k].text, 0))}

\* C6 as stated: a search for a single term that occurs in exactly one
\* document of the corpus returns exactly one hit, for that document, with
\* match_count >= 1, and a total of 1
SingleTermRoundTrip ==
    IsTermSearch =>
        \A k \in WordIn(rq.query) : WordIn(rq.query) = {k} => ReturnsOnly(k)

\* the indexed records holding a word with the stem of the term
StemIn(term) ==
    {k \in Indexed : "text" \in DOMAIN json[k]
                     /\ Stem(lower(term)) \in Range(tokenize(json[k].text))}

\* C6 amended: a search for a single alphanumeric word other than AND, OR
\* and NOT, whose stem is the stem of a word of exactly one indexed document,
\* returns exactly one hit, for that document, with match_count >= 1, and a
\* total of 1
SingleStemRoundTrip ==
    (IsTermSearch /\ rq.query \notin {OpAND, OpOR, OpNOT}) =>
        \A k \in StemIn(rq.query) : StemIn(rq.query) = {k} => ReturnsOnly(k)

\* a term found in the second of several indexed documents only
RoundTripSecondDocument ==
    /\ IsTermSearch
    /\ Cardinality(Indexed) >= 2
    /\ \E k \in StemIn(rq.query) :
          /\ StemIn(rq.query) = {k}
          /\ k >= 2
          /\ ReturnsOnly(k)

\* the fixed query set of the idempotence property
FixedQueries == {w_island, w_islands, w_Maxwell, w_other}

\* C7: a build that follows a completed build of the same corpus completes
\* as well and leaves exactly what the first build left: the same rows in
\* both tables, no row of the earlier build kept or doubled, the same
\* indexes, hence the same document count and the same results for a fixed
\* query set
RebuildLeavesSameIndex ==
    hist.completed >= 1 =>
        /\ build.pc # "aborted"
        /\ (build.pc = "loop" /\ build.i = 0) =>
              db.documents = <<>> /\ db.documents_fts = <<>> /\ db.indexes = {}
        /\ (build.pc = "done" /\ hist.completed >= 2) =>
              /\ db = hist.first
              /\ Len(db.documents) = Len(hist.first.documents)
              /\ \A q \in FixedQueries :
                    SQLiteSearcher_search(db, q, None, None, 0) =
                    SQLiteSearcher_search(hist.first, q, None, None, 0)

\* a second build completed over an index of several rows, one record
\* having been skipped
RebuiltTwice ==
    /\ build.pc = "done"
    /\ hist.completed = 2
    /\ Len(db.documents) >= 2
    /\ build.errors >= 1

\* the record has no required field to read: it is no object, or it lacks
\* dataset, filename, filepath or pages
LacksRequired(doc) == ~IsDict(doc) \/ ~(REQUIRED \subseteq DOMAIN doc)
\* the positions (1-based) of the accepted records among the first n
Accepted(n) == {k \in 1..n : ~LacksRequired(json[k])}
DocIds == {db.documents[k].id : k \in 1..Len(db.documents)}
FtsIds == {db.documents_fts[k].rowid : k \in 1..Len(db.documents_fts)}

\* C16: a record lacking a required field, a record that is no field mapping
\* included, never aborts the build; it is counted, gets no row, and a
\* finished build reports indexed = total - errors
BadRecordsAreSkipped ==
    /\ (build.pc = "aborted" /\ build.i < build.total) =>
          ~LacksRequired(json[build.i + 1])
    /\ \A id \in DocIds \cup FtsIds : id \in Accepted(Len(json))
    /\ build.pc = "done" =>
          /\ build.errors = Len(json) - Cardinality(Accepted(Len(json)))
          /\ build.indexed = build.total - build.errors

\* C17: the documents table and the full-text table hold the same ids, each
\* once, and a stored row's id is the 1-based position of its record in the
\* input
TablesHoldSameIdsByPosition ==
    /\ DocIds = FtsIds
    /\ Len(db.documents) = Cardinality(DocIds)
    /\ Len(db.documents_fts) = Cardinality(FtsIds)
    /\ \A k \in 1..Len(db.documents) :
          LET row == db.documents[k]
          IN  /\ row.id \in Accepted(Len(json))
              /\ row.filename = json[row.id].filename
              /\ row.filepath = json[row.id].filepath
              /\ row.dataset = json[row.id].dataset
              /\ row.pages = json[row.id].pages
    /\ \A k \in 1..Len(db.documents_fts) :
          LET row == db.documents_fts[k]
          IN  /\ row.rowid \in Accepted(Len(json))
              /\ row.text = IF "text" \in DOMAIN json[row.rowid]
                            THEN json[row.rowid].text ELSE <<>>

\* a finished build that skipped a record between two stored ones
IdsWithGap ==
    /\ build.pc = "done"
    /\ \E id \in DocIds : id + 2 \in DocIds /\ id + 1 \notin DocIds

\* the ids of the rows appended but not committed
Uncommitted == {build.doc_rows[k].id : k \in 1..Len(build.doc_rows)} \ DocIds

\* C18: the committed rows are, in input order, the accepted records of a
\* prefix of the input, a whole number of batches while the loop runs; at
\* most BATCH_SIZE accepted records are uncommitted; once the loop and the
\* final batch are done every accepted record is stored, once
CommitsPrefixInBatches ==
    /\ \E p \in 0..Len(json) : DocIds = Accepted(p)
    /\ \A k \in 1..Len(db.documents) : \A j \in 1..Len(db.documents) :
          k < j => db.documents[k].id < db.documents[j].id
    /\ \A k \in 1..Len(db.documents_fts) : \A j \in 1..Len(db.documents_fts) :
          k < j => db.documents_fts[k].rowid < db.documents_fts[j].rowid
    /\ Cardinality(Uncommitted) <= BATCH_SIZE
    /\ \E q \in 0..Len(json) : DocIds \cup Uncommitted = Accepted(q)
    /\ build.pc = "loop" =>
          /\ Len(db.documents) % BATCH_SIZE = 0
          /\ DocIds \cup Uncommitted = Accepted(build.i)
    /\ build.pc \in {"indexes", "optimize", "done"} =>
          /\ DocIds = Accepted(Len(json))
          /\ FtsIds = Accepted(Len(json))
          /\ Len(db.documents) = Cardinality(DocIds)
          /\ Uncommitted = {}

\* one batch is committed and the record after it waits for the final batch
BatchCommittedOnePending ==
    /\ build.pc = "loop"
    /\ Len(db.documents) = BATCH_SIZE
    /\ Cardinality(Uncommitted) = 1
    /\ build.i = build.total

\* FTS5 rejects the query
Rejected(fts_query) == FtsSyntaxError(FtsLex(fts_query, 0, <<>>))

\* the query without the characters that are neither word characters nor
\* whitespace nor double quotes, stripped
BareQuery(query) ==
    LET Kept(c) == c \in BareSet \cup WS \cup {"\""}
    IN  strip(SelectSeq(query, Kept))

IsTranslatedSearch == rq.op = "sql_search" /\ _translate_query(rq.query) # IndexError

\* C22: SQLiteSearcher.search does not raise when FTS5 rejects the translated
\* query: it executes the sanitized query once more, only if that is
\* non-empty and differs from the translated query, and returns ([], 0)
\* when the second execution fails or is not made; an empty translated query
\* returns ([], 0) and executes nothing
SearchSurvivesSyntaxError ==
    LET Empty == PyTuple(<<>>, 0)
        Run(q) == _execute_fts(db, q, rq.query, rq.dataset, rq.limit, rq.offset)
        Holds(fts_query, simple) ==
            /\ rq.ret.type = "tuple"
            /\ fts_query = <<>> => rq.executed = <<>> /\ rq.ret = Empty
            /\ (fts_query # <<>> /\ ~Rejected(fts_query)) =>
                  rq.executed = <<fts_query>> /\ rq.ret = Run(fts_query)
            /\ (fts_query # <<>> /\ Rejected(fts_query)
                  /\ (simple = <<>> \/ simple = fts_query)) =>
                  rq.executed = <<fts_query>> /\ rq.ret = Empty
            /\ (fts_query # <<>> /\ Rejected(fts_query)
                  /\ simple # <<>> /\ simple # fts_query) =>
                  /\ rq.executed = <<fts_query, simple>>
                  /\ rq.ret = IF Rejected(simple) THEN Empty ELSE Run(simple)
    IN  IsTranslatedSearch =>
            Holds(_translate_query(rq.query), BareQuery(rq.query))

\* a rejected query whose sanitized form was executed and found a document
RetryFoundDocument ==
    /\ IsTranslatedSearch
    /\ Len(rq.executed) = 2
    /\ Rejected(rq.executed[1])
    /\ HitsOf(rq.ret) # <<>>

(***************************************************************************)
(* The entry points: build_index.main, PDFSearcher() and lifespan          *)
(***************************************************************************)
MaxRuns == 3

\* json.load of the full artifact gives a dict; len() counts its keys
\* "metadata" and "datasets", and iterating it yields these two strings
FullArtifact == <<[py_type |-> "str"], [py_type |-> "str"]>>

\* what each candidate file holds: the extractor's search index in data/,
\* an older list with a record lacking "pages" in the project root, and the
\* full artifact
FileContent(path) ==
    IF path = DataSearchIndex THEN create_search_index(process_all_pdfs(IndexPdfs))
    ELSE IF path = RootSearchIndex THEN SubSeq(IndexPool, 1, 3)
    ELSE FullArtifact

InitMain ==
    /\ data = <<>> /\ loaded = FALSE
    /\ rq = Idle
    /\ json = <<>>
    /\ db = EmptyDb
    /\ build = IdleBuild
    /\ hist = NoHist
    /\ files \in SUBSET Range(candidates)
    /\ run = NoRun
    /\ mem = NoMem /\ cls = NoCls /\ lim = NoLim

\* os.remove(SEARCH_DB)
os_remove(db_file) == EmptyDb

\* main of build_index, up to the loop of build_index: the lookup, the two
\* exits, the removal of the index file, and build_index up to its loop
Main(force) ==
    /\ build.pc \in {"idle", "done", "aborted"}
    /\ rq = Idle
    /\ run.n < MaxRuns
    /\ LET json_path == find_json_file(files)
       IN  IF json_path = NoFile
           THEN /\ run' = [n |-> run.n + 1, cmd |-> "build_index.main", force |-> force,
                           json_file |-> NoFile, exit |-> 1]
                /\ UNCHANGED <<json, db, build, hist>>
           ELSE IF main_skips(db.exists, force)
           THEN /\ run' = [n |-> run.n + 1, cmd |-> "build_index.main", force |-> force,
                           json_file |-> json_path, exit |-> 0]
                /\ UNCHANGED <<json, db, build, hist>>
           ELSE /\ run' = [n |-> run.n + 1, cmd |-> "build_index.main", force |-> force,
                           json_file |-> json_path, exit |-> None]
                /\ json' = FileContent(json_path)
                /\ db' = ExecuteScript(IF db.exists THEN os_remove(db) ELSE db)
                /\ build' = [IdleBuild EXCEPT !.pc = "loop",
                                              !.total = Len(FileContent(json_path))]
                /\ hist' = [hist EXCEPT !.builds = @ + 1]
    /\ UNCHANGED <<data, loaded, rq, files, mem, cls, lim>>

\* PDFSearcher() without a file name: the lookup, then the load, or exit 1
NewSearcher ==
    /\ build.pc \in {"idle", "done", "aborted"}
    /\ rq = Idle
    /\ run.n < MaxRuns
    /\ LET json_file == find_json_file(files)
       IN  IF json_file = NoFile
           THEN /\ run' = [n |-> run.n + 1, cmd |-> "PDFSearcher", force |-> FALSE,
                           json_file |-> NoFile, exit |-> 1]
                /\ data' = data
           ELSE /\ run' = [n |-> run.n + 1, cmd |-> "PDFSearcher", force |-> FALSE,
                           json_file |-> json_file, exit |-> None]
                /\ data' = FileContent(json_file)
    /\ UNCHANGED <<loaded, rq, json, db, build, hist, files, mem, cls, lim>>

\* the server's startup: the lookup, then searcher = PDFSearcher(json_file),
\* or a warning and no searcher
Lifespan ==
    /\ build.pc \in {"idle", "done", "aborted"}
    /\ rq = Idle
    /\ run.n < MaxRuns
    /\ LET json_file == find_json_file(files)
       IN  /\ run' = [n |-> run.n + 1, cmd |-> "lifespan", force |-> FALSE,
                      json_file |-> json_file, exit |-> None]
           /\ IF json_file = NoFile
              THEN data' = <<>> /\ loaded' = FALSE
              ELSE data' = FileContent(json_file) /\ loaded' = TRUE
    /\ UNCHANGED <<rq, json, db, build, hist, files, mem, cls, lim>>

NextMain ==
    \/ \E force \in BOOLEAN : Main(force)
    \/ IndexDoc
    \/ SkipDoc
    \/ AbortOnEntry
    \/ FinalBatch
    \/ CreateIndexes
    \/ Optimize
    \/ NewSearcher
    \/ Lifespan

SpecMain == InitMain /\ [][NextMain]_vars

(***************************************************************************)
(* Properties of the entry points                                          *)
(***************************************************************************)
IsMainStep == run'.n = run.n + 1 /\ run'.cmd = "build_index.main"

\* C19: when the index file exists and --force is not given, main exits
\* and the file is neither removed nor written; the file is removed and
\* rebuilt from nothing only with --force
MainKeepsIndexWithoutForce ==
    [][(IsMainStep /\ db.exists) =>
          /\ ~run'.force =>
                /\ db' = db /\ json' = json /\ build' = build /\ hist' = hist
                /\ run'.exit # None
          /\ (db' # db \/ build' # build) => run'.force
          /\ (run'.force /\ files # {}) =>
                /\ db'.exists
                /\ db'.documents = <<>> /\ db'.documents_fts = <<>>
                /\ db'.indexes = {}
                /\ build'.pc = "loop" /\ build'.i = 0
                /\ hist'.builds = hist.builds + 1]_vars

\* main was run without --force on the index a complete build left, and
\* exited
IndexKeptWithoutForce ==
    /\ run.cmd = "build_index.main" /\ ~run.force
    /\ run.exit = 0
    /\ build.pc = "done"
    /\ db.exists /\ db.documents # <<>>

IsLookup == run.cmd # "none"

\* C20 as stated: the full artifact is tried before the search-index
\* artifact, so the search index of a directory is chosen only when that
\* directory has no full artifact
FullArtifactTriedFirst ==
    IsLookup =>
        /\ run.json_file = DataSearchIndex => DataFull \notin files
        /\ run.json_file = RootSearchIndex => RootFull \notin files

\* C20 amended: the candidates are tried in the order data/ search index,
\* data/ full artifact, project-root search index, project-root full
\* artifact; the first that exists is chosen, and it is the file loaded
SearchIndexArtifactTriedFirst ==
    IsLookup =>
        LET order   == <<"data/epstein_pdfs_search_index.json",
                         "data/epstein_pdfs_full.json",
                         "epstein_pdfs_search_index.json",
                         "epstein_pdfs_full.json">>
            rank(f) == CHOOSE k \in 1..Len(order) : order[k] = f
        IN  /\ files = {} <=> run.json_file = NoFile
            /\ files # {} =>
                  /\ run.json_file \in files
                  /\ \A f \in files : rank(run.json_file) <= rank(f)
            /\ (run.cmd = "build_index.main" /\ run.exit = None) =>
                  json = FileContent(run.json_file)
            /\ (run.cmd \in {"PDFSearcher", "lifespan"} /\ run.json_file # NoFile) =>
                  data = FileContent(run.json_file)
            /\ (run.cmd \in {"build_index.main", "PDFSearcher"}
                /\ run.json_file = NoFile) => run.exit = 1

\* both artifacts are in data/ and the search index was the one loaded
BothArtifactsPresent ==
    /\ IsLookup
    /\ {DataSearchIndex, DataFull} \subseteq files
    /\ run.json_file = DataSearchIndex
    /\ run.cmd = "PDFSearcher"
    /\ data = FileContent(DataSearchIndex)


\* C21: with no corpus file at any candidate location every entry point
\* (PDFSearcher(), build_index.main, the server's lifespan) ends the process
\* at startup with exit status 1
NoCorpusIsFatal ==
    (IsLookup /\ run.json_file = NoFile) => run.exit = 1


(***************************************************************************)
(* The image classifier                                                    *)
(***************************************************************************)
MAX_RETRIES == 5
INITIAL_BACKOFF == 2
\* config.CLASSIFY_SAVE_INTERVAL is 100; the model saves every 2
CLASSIFY_SAVE_INTERVAL == 2

\* the second component of classify_image's tuple: None, the parsed JSON
\* object of the response, or a parsed object that is empty
NoResult == "None"
Parsed == "classification"
EmptyDict == "{}"
\* total_token_count of a response that has usage metadata
TokensPerCall == 1

\* what one generate_content call and the parsing of its response do: a
\* parsed object with or without usage metadata, an empty object, an
\* exception whose text holds 429 or RESOURCE_EXHAUSTED, another exception
ApiOutcomes == {"ok", "ok_no_usage", "empty", "rate_limit", "error"}

Event(ev, n) == [ev |-> ev, n |-> n]

\* a loop that sleeps and goes on after every exception
RECURSIVE AttemptRetriesAnyError(_, _, _, _)
AttemptRetriesAnyError(filename, outcomes, attempt, events) ==
    LET called == events \o <<Event("acquire", attempt), Event("call", attempt)>>
        slept == called \o <<Event("sleep", INITIAL_BACKOFF * 2 ^ attempt)>>
    IN  IF attempt >= MAX_RETRIES
        THEN [ret |-> <<filename, NoResult, 0>>, events |-> events]
        ELSE IF outcomes[attempt + 1] = "ok"
        THEN [ret |-> <<filename, Parsed, TokensPerCall>>, events |-> called]
        ELSE IF outcomes[attempt + 1] = "ok_no_usage"
        THEN [ret |-> <<filename, Parsed, 0>>, events |-> called]
        ELSE IF outcomes[attempt + 1] = "empty"
        THEN [ret |-> <<filename, EmptyDict, TokensPerCall>>, events |-> called]
        ELSE IF attempt < MAX_RETRIES - 1
        THEN AttemptRetriesAnyError(filename, outcomes, attempt + 1, slept)
        ELSE [ret |-> <<filename, NoResult, 0>>, events |-> called]

\* classify_image from `for attempt in range(MAX_RETRIES)` on: the value
\* returned, and the calls made to rate_limiter.acquire, generate_content
\* and time.sleep, in order
RECURSIVE Attempt(_, _, _, _)
Attempt(filename, outcomes, attempt, events) ==
    LET called == events \o <<Event("acquire", attempt), Event("call", attempt)>>
        slept == called \o <<Event("sleep", INITIAL_BACKOFF * 2 ^ attempt)>>
    IN  IF attempt >= MAX_RETRIES
        THEN [ret |-> <<filename, NoResult, 0>>, events |-> events]
        ELSE IF outcomes[attempt + 1] = "ok"
        THEN [ret |-> <<filename, Parsed, TokensPerCall>>, events |-> called]
        ELSE IF outcomes[attempt + 1] = "ok_no_usage"
        THEN [ret |-> <<filename, Parsed, 0>>, events |-> called]
        ELSE IF outcomes[attempt + 1] = "empty"
        THEN [ret |-> <<filename, EmptyDict, TokensPerCall>>, events |-> called]
        ELSE IF outcomes[attempt + 1] = "rate_limit" /\ attempt < MAX_RETRIES - 1
        THEN Attempt(filename, outcomes, attempt + 1, slept)
        ELSE [ret |-> <<filename, NoResult, 0>>, events |-> called]

\* classify_image; readable: thumb_path.read_bytes() does not raise
classify_image(filename, readable, outcomes) ==
    IF ~readable THEN [ret |-> <<filename, NoResult, 0>>, events |-> <<>>]
    ELSE Attempt(filename, outcomes, 0, <<>>)

\* dicts are functions; d[k] = v
DictSet(d, k, v) == [x \in DOMAIN d \cup {k} |-> IF x = k THEN v ELSE d[x]]
EmptyDictionary == [x \in {} |-> NoResult]

\* estimated cost of the tokens used, in units of the price of one token
\* (0.00000015 dollars); max_cost is in the same unit
est_cost(total_tokens) == total_tokens

(***************************************************************************)
(* Inputs of the classifier                                                *)
(***************************************************************************)
MaxThumbs == 3
MaxWorkers == 2
ThumbNames == <<"a.jpg", "b.jpg", "c.jpg", "d.jpg", "e.jpg">>
\* sorted(thumb_dir.glob("*.jpg")) of the three datasets: the second has no
\* thumbnails
Thumbs(dataset_num) ==
    IF dataset_num = 1 THEN SubSeq(ThumbNames, 1, MaxThumbs)
    ELSE IF dataset_num = 2 THEN <<>>
    ELSE <<"z.jpg">>
ClassifyDatasets == <<1, 2, 3>>
\* a classification written by an earlier run
Old == "earlier classification"
NoOutputFile == [exists |-> FALSE, pages |-> EmptyDictionary]
OutputFile(names) == [exists |-> TRUE, pages |-> [x \in names |-> Old]]
\* the output files before the run: that of dataset 1 is missing, or holds
\* the first thumbnail, or all of them
OutputFiles ==
    {[d \in Range(ClassifyDatasets) |-> IF d = 1 THEN f ELSE NoOutputFile] :
        f \in {NoOutputFile, OutputFile({ThumbNames[1]}),
               OutputFile(Range(Thumbs(1)))}}
MaxCosts == {None, 0, 2}
\* the outcomes of the API calls of one classify_image call
OutcomesFrom(first) ==
    first \o [k \in 1..(MAX_RETRIES + 1 - Len(first)) |-> "error"]
PoolRuns ==
    {[readable |-> FALSE, outcomes |-> OutcomesFrom(<<"ok">>)]}
    \cup {[readable |-> TRUE, outcomes |-> OutcomesFrom(o)] :
            o \in {<<"ok">>, <<"rate_limit", "ok_no_usage">>, <<"error">>, <<"empty">>}}

(***************************************************************************)
(* classifier.main and classify_dataset                                    *)
(***************************************************************************)
NoTuple == <<>>
InitClassify ==
    /\ data = <<>> /\ loaded = FALSE /\ files = {}
    /\ run = NoRun
    /\ rq = Idle
    /\ json = <<>>
    /\ db = EmptyDb
    /\ build = IdleBuild
    /\ hist = NoHist
    /\ mem = NoMem /\ lim = NoLim
    /\ \E force \in BOOLEAN, dry_run \in BOOLEAN, workers \in 1..MaxWorkers,
          max_cost \in MaxCosts, file \in OutputFiles :
          cls = [pc |-> "main", force |-> force, dry_run |-> dry_run,
                 workers |-> workers, max_cost |-> max_cost,
                 datasets |-> ClassifyDatasets, dataset_num |-> 0,
                 interrupted |-> FALSE, sigint |-> FALSE, total_tokens |-> 0,
                 file |-> file, before |-> NoOutputFile, worked |-> FALSE,
                 existing |-> EmptyDictionary, to_classify |-> <<>>,
                 futures |-> <<>>, yielded |-> {},
                 classified |-> 0, failed |-> 0, unsaved_count |-> 0,
                 ret |-> NoTuple]

\* save_progress
save_progress(c) ==
    [c EXCEPT !.file[c.dataset_num] = [exists |-> TRUE, pages |-> c.existing],
              !.unsaved_count = 0]

\* one iteration of main's loop over the datasets: the break when
\* interrupted, else classify_dataset up to the creation of the pool, with
\* its early returns
StartDataset ==
    /\ cls.pc = "main" /\ cls.datasets # <<>>
    /\ LET dataset_num == Head(cls.datasets)
           output == cls.file[dataset_num]
           existing == IF output.exists /\ ~cls.force THEN output.pages
                       ELSE EmptyDictionary
           all_thumbs == Thumbs(dataset_num)
           Unclassified(t) == t \notin DOMAIN existing
           to_classify == IF cls.force THEN all_thumbs
                          ELSE SelectSeq(all_thumbs, Unclassified)
           entered == [cls EXCEPT !.datasets = Tail(cls.datasets),
                                  !.dataset_num = dataset_num,
                                  !.before = output, !.worked = FALSE,
                                  !.existing = existing,
                                  !.to_classify = to_classify,
                                  !.futures = <<>>, !.yielded = {},
                                  !.classified = 0, !.failed = 0,
                                  !.unsaved_count = 0]
       IN  IF cls.interrupted THEN cls' = [cls EXCEPT !.pc = "exit"]
           ELSE IF all_thumbs = <<>>
           THEN cls' = [entered EXCEPT !.ret = <<0, 0, 0>>]
           ELSE IF cls.dry_run \/ to_classify = <<>>
           THEN cls' = [entered EXCEPT
                          !.ret = <<0, Cardinality(DOMAIN existing), 0>>]
           ELSE cls' = [entered EXCEPT !.pc = "submit", !.worked = TRUE]
    /\ UNCHANGED <<data, loaded, rq, json, db, build, hist, files, run, mem, lim>>

\* one iteration of `for thumb in to_classify`: the break when interrupted,
\* else pool.submit; the loop over as_completed follows the last one
Submit ==
    /\ cls.pc = "submit"
    /\ IF Len(cls.futures) = Len(cls.to_classify) \/ cls.interrupted
       THEN cls' = [cls EXCEPT !.pc = "as_completed"]
       ELSE cls' = [cls EXCEPT !.futures =
                        Append(@, [state |-> "pending", ret |-> NoTuple])]
    /\ UNCHANGED <<data, loaded, rq, json, db, build, hist, files, run, mem, lim>>

Running(c) == {k \in 1..Len(c.futures) : c.futures[k].state = "running"}
Pending(c) == {k \in 1..Len(c.futures) : c.futures[k].state = "pending"}
Finished(c) == {k \in 1..Len(c.futures) : c.futures[k].state = "finished"}
PoolAlive(c) == c.pc \in {"submit", "as_completed", "shutdown"}

\* a thread of the pool takes the oldest work item of the queue and begins
\* classify_image
WorkerStart ==
    /\ PoolAlive(cls)
    /\ Pending(cls) # {}
    /\ Cardinality(Running(cls)) < cls.workers
    /\ LET k == CHOOSE j \in Pending(cls) : \A i \in Pending(cls) : j <= i
       IN  cls' = [cls EXCEPT !.futures[k].state = "running"]
    /\ UNCHANGED <<data, loaded, rq, json, db, build, hist, files, run, mem, lim>>

\* classify_image returns in a thread of the pool
WorkerFinish(k, r) ==
    /\ PoolAlive(cls)
    /\ k \in Running(cls)
    /\ cls' = [cls EXCEPT
                 !.futures[k] =
                     [state |-> "finished",
                      ret |-> classify_image(cls.to_classify[k], r.readable,
                                             r.outcomes).ret]]
    /\ UNCHANGED <<data, loaded, rq, json, db, build, hist, files, run, mem, lim>>

\* the body of the loop over as_completed for a result
Processed(c, ret) ==
    LET recorded ==
            IF ret[2] \in {Parsed}
            THEN [c EXCEPT !.existing = DictSet(@, ret[1], ret[2]),
                           !.classified = @ + 1,
                           !.unsaved_count = @ + 1,
                           !.total_tokens = @ + ret[3]]
            ELSE [c EXCEPT !.failed = @ + 1]
        Saved(r) == IF r.unsaved_count >= CLASSIFY_SAVE_INTERVAL
                    THEN save_progress(r) ELSE r
        Capped(r) == IF r.max_cost \notin {None, 0}
                        /\ est_cost(r.total_tokens) >= r.max_cost
                     THEN [r EXCEPT !.interrupted = TRUE] ELSE r
    IN  Capped(Saved(recorded))

\* one iteration of `for future in as_completed(futures)`: a finished
\* future not yet yielded is yielded; the break when interrupted, else its
\* result is processed
AsCompleted(k) ==
    /\ cls.pc = "as_completed"
    /\ k \in Finished(cls) \ cls.yielded
    /\ IF cls.interrupted
       THEN cls' = [cls EXCEPT !.pc = "shutdown"]
       ELSE cls' = [Processed(cls, cls.futures[k].ret) EXCEPT
                      !.yielded = @ \cup {k}]
    /\ UNCHANGED <<data, loaded, rq, json, db, build, hist, files, run, mem, lim>>

\* as_completed has yielded every future
Exhausted ==
    /\ cls.pc = "as_completed"
    /\ cls.yielded = 1..Len(cls.futures)
    /\ cls' = [cls EXCEPT !.pc = "shutdown"]
    /\ UNCHANGED <<data, loaded, rq, json, db, build, hist, files, run, mem, lim>>

\* the end of the with block, shutdown(wait=True), returns once every
\* submitted work item has run; then the final save and the return
Shutdown ==
    /\ cls.pc = "shutdown"
    /\ Finished(cls) = 1..Len(cls.futures)
    /\ cls' = [save_progress(cls) EXCEPT
                 !.pc = "main",
                 !.ret = <<cls.classified,
                           Cardinality(DOMAIN cls.existing) - cls.classified,
                           cls.failed>>]
    /\ UNCHANGED <<data, loaded, rq, json, db, build, hist, files, run, mem, lim>>

\* handle_sigint, in the main thread at any moment; it restores the
\* original handler
Sigint ==
    /\ cls.pc # "exit" /\ ~cls.sigint
    /\ cls' = [cls EXCEPT !.interrupted = TRUE, !.sigint = TRUE]
    /\ UNCHANGED <<data, loaded, rq, json, db, build, hist, files, run, mem, lim>>

\* main after its loop
MainEnd ==
    /\ cls.pc = "main" /\ cls.datasets = <<>>
    /\ cls' = [cls EXCEPT !.pc = "exit"]
    /\ UNCHANGED <<data, loaded, rq, json, db, build, hist, files, run, mem, lim>>

NextClassify ==
    \/ StartDataset
    \/ Submit
    \/ WorkerStart
    \/ \E k \in 1..MaxThumbs, r \in PoolRuns : WorkerFinish(k, r)
    \/ \E k \in 1..MaxThumbs : AsCompleted(k)
    \/ Exhausted
    \/ Shutdown
    \/ Sigint
    \/ MainEnd

SpecClassify == InitClassify /\ [][NextClassify]_vars

(***************************************************************************)
(* Properties of the classifier                                            *)
(***************************************************************************)
\* classify_dataset has returned after creating its pool
ReturnedAfterWork == cls.pc \in {"main", "exit"} /\ cls.worked

\* every key of dictionary q is a key of p
HasKeysOf(p, q) == DOMAIN q \subseteq DOMAIN p

\* C26: after each result processed fewer than CLASSIFY_SAVE_INTERVAL
\* recorded classifications are unsaved, and when classify_dataset returns
\* after starting work its output file holds every classification recorded
\* in memory and every one the file held before
SavesAllProgress ==
    /\ cls.pc \in {"as_completed", "shutdown"} =>
          cls.unsaved_count < CLASSIFY_SAVE_INTERVAL
    /\ ReturnedAfterWork =>
          /\ cls.file[cls.dataset_num].pages = cls.existing
          /\ HasKeysOf(cls.file[cls.dataset_num].pages, cls.before.pages)

\* the classify_image calls begun so far in the current dataset
Begun(c) == {<<c.dataset_num, k>> : k \in Running(c) \cup Finished(c)}

\* C27: once the interrupted flag is set no classify_image call is begun
NoCallBegunAfterInterrupt ==
    [][cls.interrupted => Begun(cls') \subseteq Begun(cls)]_vars


(***************************************************************************)
(* classify_image on its own                                               *)
(***************************************************************************)
\* every course the API calls of one classify_image call can take
ImageRuns == [1..(MAX_RETRIES + 1) -> ApiOutcomes]

InitImage ==
    /\ data = <<>> /\ loaded = FALSE /\ files = {}
    /\ run = NoRun
    /\ rq = Idle
    /\ json = <<>>
    /\ db = EmptyDb
    /\ build = IdleBuild
    /\ hist = NoHist
    /\ mem = NoMem /\ lim = NoLim
    /\ cls = NoCls

\* a call of classify_image for the first thumbnail
ClassifyImage ==
    /\ cls = NoCls
    /\ \E readable \in BOOLEAN, outcomes \in ImageRuns :
          cls' = [pc |-> "image", filename |-> ThumbNames[1],
                  readable |-> readable, outcomes |-> outcomes,
                  call |-> classify_image(ThumbNames[1], readable, outcomes)]
    /\ UNCHANGED <<data, loaded, rq, json, db, build, hist, files, run, mem, lim>>

NextImage == ClassifyImage

SpecImage == InitImage /\ [][NextImage]_vars

\* the positions of the events of one kind
EventsOf(events, ev) == {k \in 1..Len(events) : events[k].ev = ev}

\* C28: classify_image calls the API at most MAX_RETRIES times, each call
\* right after a call of rate_limiter.acquire; it retries only after a
\* rate-limit error, having slept INITIAL_BACKOFF * 2^attempt; after any
\* other error or the last failed attempt it returns (filename, None, 0)
\* at once; it always returns a tuple
ClassifyImageRetriesOnlyRateLimits ==
    cls.pc = "image" =>
        LET events == cls.call.events
            calls == EventsOf(events, "call")
            Failed(k) == cls.outcomes[events[k].n + 1] \in {"rate_limit", "error"}
        IN  /\ Cardinality(calls) <= MAX_RETRIES
            /\ EventsOf(events, "acquire") = {k - 1 : k \in calls}
            /\ \A k \in calls : events[k].n = Cardinality({j \in calls : j < k})
            \* a retry follows a rate-limit error and a sleep
            /\ \A k \in calls :
                  events[k].n > 0 =>
                      /\ events[k - 2].ev = "sleep"
                      /\ events[k - 2].n = INITIAL_BACKOFF * 2 ^ (events[k].n - 1)
                      /\ events[k - 3].ev = "call"
                      /\ cls.outcomes[events[k - 3].n + 1] = "rate_limit"
            /\ \A k \in EventsOf(events, "sleep") :
                  k < Len(events) /\ events[k - 1].ev = "call"
            \* the call after which it returned
            /\ \A k \in calls :
                  (\/ cls.outcomes[events[k].n + 1] = "error"
                   \/ /\ cls.outcomes[events[k].n + 1] = "rate_limit"
                      /\ events[k].n = MAX_RETRIES - 1) =>
                      /\ k = Len(events)
                      /\ cls.call.ret = <<cls.filename, NoResult, 0>>
            /\ Len(cls.call.ret) = 3
            /\ cls.call.ret[1] = cls.filename
            /\ cls.call.ret[2] \in {NoResult, Parsed, EmptyDict}
            /\ cls.call.ret[2] = NoResult => cls.call.ret[3] = 0
            /\ (cls.readable /\ cls.call.ret[2] # NoResult) =>
                  ~Failed(Len(events))

\* four rate-limit errors, each followed by its sleep, and a fifth
RetriesExhausted ==
    /\ cls.pc = "image"
    /\ Cardinality(EventsOf(cls.call.events, "call")) = MAX_RETRIES
    /\ Cardinality(EventsOf(cls.call.events, "sleep")) = MAX_RETRIES - 1
    /\ cls.outcomes[MAX_RETRIES] = "rate_limit"
    /\ cls.call.ret = <<cls.filename, NoResult, 0>>


(***************************************************************************)
(* RateLimiter                                                             *)
(***************************************************************************)
\* the clock counts ticks; interval = 60.0 / rpm is TicksPerInterval ticks,
\* so that a minute is rpm * TicksPerInterval ticks
TicksPerInterval == 2
MaxRpm == 3
MaxThreads == 2
MaxAcquires == 2
\* the clock runs freely up to MaxTime, and further while a thread sleeps
MaxTime == 5
Threads == 1..MaxThreads
Minute(rpm) == rpm * TicksPerInterval

\* a wait counted from the start of the clock
WaitFromStart(last_request, interval, now) == interval - now

\* wait = self.last_request + self.interval - now
Wait(last_request, interval, now) == last_request + interval - now

NoThread == 0
\* RateLimiter(rpm) at time 0, no thread in acquire
InitLimiter ==
    /\ data = <<>> /\ loaded = FALSE /\ files = {}
    /\ run = NoRun
    /\ rq = Idle
    /\ json = <<>>
    /\ db = EmptyDb
    /\ build = IdleBuild
    /\ hist = NoHist
    /\ mem = NoMem /\ cls = NoCls
    /\ \E rpm \in 1..MaxRpm :
          lim = [pc |-> "run", rpm |-> rpm, interval |-> TicksPerInterval,
                 lock |-> NoThread, last_request |-> 0, clock |-> 0,
                 th |-> [t \in Threads |-> [pc |-> "out", calls |-> 0, until |-> 0]],
                 stamps |-> <<>>, returns |-> <<>>]

\* thread t calls acquire
Call(t) ==
    /\ lim.th[t].pc = "out" /\ lim.th[t].calls < MaxAcquires
    /\ lim' = [lim EXCEPT !.th[t].pc = "with", !.th[t].calls = @ + 1]
    /\ UNCHANGED <<data, loaded, rq, json, db, build, hist, files, run, mem, cls>>

\* with self.lock: the thread gets the lock when it is free
Enter(t) ==
    /\ lim.th[t].pc = "with" /\ lim.lock = NoThread
    /\ lim' = [lim EXCEPT !.lock = t, !.th[t].pc = "now"]
    /\ UNCHANGED <<data, loaded, rq, json, db, build, hist, files, run, mem, cls>>

\* now = time.monotonic(); wait = ...; if wait > 0: time.sleep(wait)
Compute(t) ==
    /\ lim.th[t].pc = "now"
    /\ LET wait == Wait(lim.last_request, lim.interval, lim.clock)
       IN  IF wait > 0
           THEN lim' = [lim EXCEPT !.th[t].pc = "sleep",
                                   !.th[t].until = lim.clock + wait]
           ELSE lim' = [lim EXCEPT !.th[t].pc = "stamp"]
    /\ UNCHANGED <<data, loaded, rq, json, db, build, hist, files, run, mem, cls>>

\* time.sleep returns, not before the time asked for has passed
Wake(t) ==
    /\ lim.th[t].pc = "sleep" /\ lim.clock >= lim.th[t].until
    /\ lim' = [lim EXCEPT !.th[t].pc = "stamp"]
    /\ UNCHANGED <<data, loaded, rq, json, db, build, hist, files, run, mem, cls>>

\* self.last_request = time.monotonic()
Stamp(t) ==
    /\ lim.th[t].pc = "stamp"
    /\ lim' = [lim EXCEPT !.last_request = lim.clock,
                          !.stamps = Append(@, lim.clock),
                          !.th[t].pc = "exit"]
    /\ UNCHANGED <<data, loaded, rq, json, db, build, hist, files, run, mem, cls>>

\* the end of the with block releases the lock, and acquire returns
Return(t) ==
    /\ lim.th[t].pc = "exit"
    /\ lim' = [lim EXCEPT !.lock = NoThread,
                          !.returns = Append(@, lim.clock),
                          !.th[t].pc = "out"]
    /\ UNCHANGED <<data, loaded, rq, json, db, build, hist, files, run, mem, cls>>

\* time passes
Tick ==
    /\ \/ lim.clock < MaxTime
       \/ \E t \in Threads : lim.th[t].pc = "sleep" /\ lim.clock < lim.th[t].until
    /\ lim' = [lim EXCEPT !.clock = @ + 1]
    /\ UNCHANGED <<data, loaded, rq, json, db, build, hist, files, run, mem, cls>>

NextLimiter ==
    \/ \E t \in Threads : Call(t)
    \/ \E t \in Threads : Enter(t)
    \/ \E t \in Threads : Compute(t)
    \/ \E t \in Threads : Wake(t)
    \/ \E t \in Threads : Stamp(t)
    \/ \E t \in Threads : Return(t)
    \/ Tick

\* a thread that can take a step takes it, and time goes on
SpecLimiter ==
    /\ InitLimiter /\ [][NextLimiter]_vars
    /\ WF_vars(Tick)
    /\ \A t \in Threads :
          /\ WF_vars(Enter(t)) /\ WF_vars(Compute(t)) /\ WF_vars(Wake(t))
          /\ WF_vars(Stamp(t)) /\ WF_vars(Return(t))

(***************************************************************************)
(* Properties of RateLimiter                                               *)
(***************************************************************************)
InLock(t) == lim.th[t].pc \in {"now", "sleep", "stamp", "exit"}
InAcquire(t) == lim.th[t].pc # "out"

\* at most one thread is inside the with block, the one holding the lock
Serialized ==
    \A t \in Threads : InLock(t) <=> lim.lock = t

\* consecutive times of the sequence are at least interval apart, and at
\* most rpm of them lie in any window of a minute
Spaced(times) ==
    /\ \A k \in 1..(Len(times) - 1) : times[k + 1] - times[k] >= lim.interval
    /\ \A from \in 0..lim.clock :
          Cardinality({k \in 1..Len(times) :
                          from <= times[k] /\ times[k] < from + Minute(lim.rpm)})
              <= lim.rpm

\* C29 as stated: acquisitions are serialized, two consecutive returns from
\* acquire are at least interval apart, and at most rpm returns lie in any
\* window of a minute
ReturnsSpaced == Serialized /\ Spaced(lim.returns)

\* C29 amended: acquisitions are serialized by the lock; the times stored
\* in last_request by two consecutive acquisitions are at least interval
\* apart, at most rpm of them lie in any window of a minute, and an
\* acquisition returns no earlier than the time it stored; every caller
\* eventually returns from acquire
StampsSpaced ==
    /\ [](/\ Serialized
          /\ Spaced(lim.stamps)
          /\ \A k \in 1..Len(lim.returns) : lim.returns[k] >= lim.stamps[k])
    /\ \A t \in Threads : InAcquire(t) ~> ~InAcquire(t)

\* every thread has made all its calls and returned from them, one return
\* less than interval after the one before
AllReturnedSomeClose ==
    /\ Len(lim.returns) = MaxThreads * MaxAcquires
    /\ \A t \in Threads : ~InAcquire(t)
    /\ \E k \in 1..(Len(lim.returns) - 1) :
          lim.returns[k + 1] - lim.returns[k] < lim.interval


(***************************************************************************)
(* Search requests in threads: the objects they create and change          *)
(***************************************************************************)
\* The heap holds the mutable objects: the dicts of self.data, then the hit
\* records (each with its list of contexts) in the order of their creation.
\* An object carries the thread that created it and the call that did.
Corpus == 0
Object(owner, call, val) == [owner |-> owner, call |-> call, val |-> val]
CorpusObjects(docs) ==
    [k \in 1..Len(docs) |-> Object(Corpus, <<"json.load">>, docs[k])]
IsDocument(o) == o.owner = Corpus
\* self.data as it is in the heap
CorpusOf(heap) ==
    LET docs == SelectSeq(heap, IsDocument)
    IN  [k \in 1..Len(docs) |-> docs[k].val]

Ascending(S) ==
    [p \in 1..Cardinality(S) |->
        CHOOSE i \in S : Cardinality({j \in S : j < i}) = p - 1]

\* a call that hands out the records an earlier call with the same
\* arguments created
NewCached(heap, owner, call, hits) ==
    LET cached == {k \in 1..Len(heap) : heap[k].call = call}
    IN  IF cached # {} THEN [heap |-> heap, refs |-> Ascending(cached)]
        ELSE [heap |-> heap \o [k \in 1..Len(hits) |-> Object(owner, call, hits[k])],
              refs |-> [k \in 1..Len(hits) |-> Len(heap) + k]]

\* results.append({...}) for every hit of a call: new objects, and the
\* references to them
New(heap, owner, call, hits) ==
    [heap |-> heap \o [k \in 1..Len(hits) |-> Object(owner, call, hits[k])],
     refs |-> [k \in 1..Len(hits) |-> Len(heap) + k]]

\* PDFSearcher.search and search_proximity by thread `owner`
Heap_search(heap, owner, query) ==
    New(heap, owner, <<"search", query>>, search(CorpusOf(heap), query))
Heap_search_proximity(heap, owner, term1, term2, max_distance) ==
    New(heap, owner, <<"search_proximity", term1, term2, max_distance>>,
        search_proximity(CorpusOf(heap), term1, term2, max_distance))

FilenamesOf(heap, refs) == {heap[refs[k]].val.filename : k \in 1..Len(refs)}

\* for each r: map[filename]["match_count"] += r["match_count"] and
\* map[filename]["contexts"].extend(r["contexts"]) when the filename is a
\* key of the map, else map[filename] = r
RECURSIVE MergeRefs(_, _, _)
MergeRefs(heap, map, refs) ==
    LET r == Head(refs)
        known == {k \in 1..Len(map) :
                     heap[map[k]].val.filename = heap[r].val.filename}
        m == map[CHOOSE k \in known : TRUE]
    IN  IF refs = <<>> THEN [heap |-> heap, refs |-> map]
        ELSE IF known = {} THEN MergeRefs(heap, Append(map, r), Tail(refs))
        ELSE MergeRefs([heap EXCEPT
                          ![m].val.match_count = @ + heap[r].val.match_count,
                          ![m].val.contexts = @ \o heap[r].val.contexts],
                       map, Tail(refs))

\* the OR branch of search_multiple
RECURSIVE Heap_or(_, _, _, _)
Heap_or(heap, owner, queries, all_results) ==
    LET Merged(mr) == Heap_or(mr.heap, owner, Tail(queries), mr.refs)
        Searched(s) == Merged(MergeRefs(s.heap, all_results, s.refs))
    IN  IF queries = <<>> THEN [heap |-> heap, refs |-> all_results]
        ELSE Searched(Heap_search(heap, owner, Head(queries)))

\* the searches of a loop that only collects filenames: search_multiple's
\* AND branch after the first term, and step 5
RECURSIVE Heap_files(_, _, _, _)
Heap_files(heap, owner, queries, found) ==
    LET Searched(s) ==
            Heap_files(s.heap, owner, Tail(queries),
                       Append(found, FilenamesOf(s.heap, s.refs)))
    IN  IF queries = <<>> THEN [heap |-> heap, found |-> found]
        ELSE Searched(Heap_search(heap, owner, Head(queries)))

Heap_search_multiple(heap, owner, queries, operator) ==
    LET Kept(first, rest) ==
            LET InAll(r) == \A k \in 1..Len(rest.found) :
                                rest.heap[r].val.filename \in rest.found[k]
            IN  [heap |-> rest.heap, refs |-> SelectSeq(first.refs, InAll)]
        First(first) == Kept(first, Heap_files(first.heap, owner, Tail(queries), <<>>))
    IN  IF upper(operator) = OpAND
        THEN First(Heap_search(heap, owner, queries[1]))
        ELSE Heap_or(heap, owner, queries, <<>>)

\* step 4 of _parse_and_search
Heap_step4(heap, owner, pq) ==
    IF pq.operator # <<>> THEN Heap_search_multiple(heap, owner, pq.terms, pq.operator)
    ELSE IF pq.terms[1] # <<>> THEN Heap_search(heap, owner, pq.terms[1])
    ELSE [heap |-> heap, refs |-> <<>>]

\* step 5
Heap_step5(heap, owner, pq, results) ==
    LET Kept(ex) ==
            LET NotExcluded(r) == \A k \in 1..Len(ex.found) :
                                      ex.heap[r].val.filename \notin ex.found[k]
            IN  [heap |-> ex.heap, refs |-> SelectSeq(results, NotExcluded)]
    IN  IF pq.not_terms = <<>> THEN [heap |-> heap, refs |-> results]
        ELSE Kept(Heap_files(heap, owner, pq.not_terms, <<>>))

\* step 6; results has one record per filename, so that result_map holds
\* the records of results in their order
RECURSIVE Heap_step6(_, _, _, _)
Heap_step6(heap, owner, proximity_pairs, result_map) ==
    LET pp == Head(proximity_pairs)
        Merged(mr) == Heap_step6(mr.heap, owner, Tail(proximity_pairs), mr.refs)
        Found(p) == Merged(MergeRefs(p.heap, result_map, p.refs))
    IN  IF proximity_pairs = <<>> THEN [heap |-> heap, refs |-> result_map]
        ELSE Found(Heap_search_proximity(heap, owner, pp.term1, pp.term2, pp.distance))

(***************************************************************************)
(* Inputs of the threads                                                   *)
(***************************************************************************)
MaxSearchThreads == 2
\* requests a thread answers, one after the other
MaxRequests == 1
SearchThreads == 1..MaxSearchThreads
\* a term, OR, AND, NOT, a proximity pair alone and beside a term
ThreadQueries ==
    {w_island,
     Text(<<w_island, w_OR, w_Maxwell>>),
     Text(<<w_island, w_AND, w_Maxwell>>),
     Text(<<w_island, w_NOT, w_Maxwell>>),
     Text(<<w_island, w_NEAR(5), w_Maxwell>>),
     Text(<<w_island, w_island, w_NEAR(5), w_Maxwell>>)}

NoRequest == [pc |-> "out", n |-> 0, query |-> <<>>, results |-> <<>>, ret |-> <<>>]

InitThreads ==
    /\ data = Scenario /\ loaded = TRUE /\ files = {DataSearchIndex}
    /\ run = NoRun
    /\ rq = Idle
    /\ json = <<>>
    /\ db = EmptyDb
    /\ build = IdleBuild
    /\ hist = NoHist
    /\ cls = NoCls /\ lim = NoLim
    /\ mem = [pc |-> "run", heap |-> CorpusObjects(data),
              th |-> [t \in SearchThreads |-> NoRequest]]

\* thread t is given a request: _parse_and_search(searcher, query), steps
\* 1 to 3
Begin(t, query) ==
    /\ mem.th[t].pc \in {"out", "done"} /\ mem.th[t].n < MaxRequests
    /\ mem' = [mem EXCEPT !.th[t] = [NoRequest EXCEPT !.pc = "step4",
                                                      !.n = mem.th[t].n + 1,
                                                      !.query = query]]
    /\ UNCHANGED <<data, loaded, rq, json, db, build, hist, files, run, cls, lim>>

Stepped(t, pc, h) ==
    [mem EXCEPT !.heap = h.heap, !.th[t].results = h.refs, !.th[t].pc = pc]

Step4(t) ==
    /\ mem.th[t].pc = "step4"
    /\ mem' = Stepped(t, "step5",
                      Heap_step4(mem.heap, t, ParseQuery(mem.th[t].query)))
    /\ UNCHANGED <<data, loaded, rq, json, db, build, hist, files, run, cls, lim>>

Step5(t) ==
    /\ mem.th[t].pc = "step5"
    /\ mem' = Stepped(t, "step6",
                      Heap_step5(mem.heap, t, ParseQuery(mem.th[t].query),
                                 mem.th[t].results))
    /\ UNCHANGED <<data, loaded, rq, json, db, build, hist, files, run, cls, lim>>

Step6(t) ==
    /\ mem.th[t].pc = "step6"
    /\ mem' = Stepped(t, "return",
                      Heap_step6(mem.heap, t,
                                 ParseQuery(mem.th[t].query).proximity_pairs,
                                 mem.th[t].results))
    /\ UNCHANGED <<data, loaded, rq, json, db, build, hist, files, run, cls, lim>>

\* return results: the caller reads the records
Answer(t) ==
    /\ mem.th[t].pc = "return"
    /\ mem' = [mem EXCEPT
                 !.th[t].pc = "done",
                 !.th[t].ret = [k \in 1..Len(mem.th[t].results) |->
                                   mem.heap[mem.th[t].results[k]].val]]
    /\ UNCHANGED <<data, loaded, rq, json, db, build, hist, files, run, cls, lim>>

NextThreads ==
    \/ \E t \in SearchThreads, query \in ThreadQueries : Begin(t, query)
    \/ \E t \in SearchThreads : Step4(t)
    \/ \E t \in SearchThreads : Step5(t)
    \/ \E t \in SearchThreads : Step6(t)
    \/ \E t \in SearchThreads : Answer(t)

SpecThreads == InitThreads /\ [][NextThreads]_vars

(***************************************************************************)
(* Properties of the threads                                               *)
(***************************************************************************)
\* C23: no call modifies self.data; the hit records a request holds were
\* built by that request, so none is reachable from two requests; and a
\* request interleaved with others returns what it returns alone
RequestsShareNothing ==
    /\ CorpusOf(mem.heap) = data
    /\ \A k \in 1..Len(data) : mem.heap[k] = CorpusObjects(data)[k]
    /\ \A t \in SearchThreads :
          /\ \A k \in 1..Len(mem.th[t].results) :
                mem.heap[mem.th[t].results[k]].owner = t
          /\ mem.th[t].pc = "done" =>
                mem.th[t].ret =
                    _parse_and_search(PDFSearcher(data), mem.th[t].query).value.items

\* the number of matches of island in the document of that name
IslandCount(filename) ==
    SumSeq([k \in 1..Len(HitsNamed(data, <<w_island>>, filename)) |->
              HitsNamed(data, <<w_island>>, filename)[k].match_count])

\* two requests answered, the steps of one between the steps of the other,
\* and a record of each changed by a merge after its creation
InterleavedMerges ==
    /\ \A t \in SearchThreads : mem.th[t].pc = "done"
    /\ \E i, j, k \in 1..Len(mem.heap) :
          /\ i < j /\ j < k
          /\ mem.heap[i].owner = 1 /\ mem.heap[j].owner = 2 /\ mem.heap[k].owner = 1
    /\ \A t \in {1, 2} :
          \E k \in 1..Len(mem.th[t].ret) :
              mem.th[t].ret[k].match_count > IslandCount(mem.th[t].ret[k].filename)

====
